---------------------------- MODULE Spec2Model ----------------------------
(***************************************************************************)
(* A model of the exercise evaluation pipeline of BRITAIS_PROTO            *)
(* (src/app.py, src/models.py): the progress aggregation of the dashboard, *)
(* the listening/speaking task generators with their fallback banks, and   *)
(* the deterministic listening grader.                                     *)
(*                                                                         *)
(* Representation.                                                         *)
(*   - Python None is the empty tuple <<>> and a present value x is <<x>>  *)
(*     (None / Some), so that "x is None" and "a == b" are tuple           *)
(*     comparisons.                                                        *)
(*   - A Python str that the code strips or concatenates is a sequence of  *)
(*     tokens (TLA+ strings); Flat joins the tokens into one string.  The  *)
(*     texts an AI response carries are sequences of one-character tokens; *)
(*     a text of the built-in banks is a single token holding the text     *)
(*     (non-ASCII letters and dashes transliterated to ASCII).             *)
(*   - Scores are integers: the Float column tb_submissions.ai_score holds *)
(*     the writing/speaking scores and the listening scores 0 and 100 that *)
(*     the dashboard specifications insert; the listening grader keeps its *)
(*     score as the exact fraction correct*100/total.                      *)
(*   - A date is its day number; the order of tb_submissions is the order  *)
(*     of insertion, which is the order of created_at (default utcnow).    *)
(***************************************************************************)
EXTENDS Integers, Sequences, FiniteSets, TLC

VARIABLES
    subs,            \* tb_submissions, in insertion (= created_at) order
    today,           \* date.today()
    pc,              \* position of the dashboard request
    user,            \* dashboard(): user = current_user()
    overall_score,   \* dashboard(): overall_score (None until computed)
    level,           \* dashboard(): level
    practiced_days,  \* dashboard(): practiced_days
    anchor,          \* dashboard(): anchor
    d,               \* dashboard(): d, the day the walk looks at
    streak,          \* dashboard(): streak
    call,            \* the generator call made last: function and arguments
    result,          \* what that call returned
    prev,            \* the listening task returned by the call before it
    listening_task,  \* session["listening_task"], the task to grade
    user_answers,    \* the answers handed to evaluate_listening_answers
    listening_score, \* the score evaluate_listening_answers returned
    feedback_lines,  \* the feedback lines it returned
    judge,           \* the evaluation call made: function and arguments
    evaluation,      \* the dict (or tuple) that call returned
    session,         \* per user: the Flask session's listening_task and
                     \* speaking_topic
    request,         \* the request handled last: what came in, what the
                     \* handler called and what it answered
    issued,          \* number of tasks and topics generated so far
    pending_ids,     \* per user: which generated instance each pending item is
    recorded         \* the instances a submission was persisted for, in order

dbVars   == <<subs, today>>
dashVars == <<pc, user, overall_score, level, practiced_days, anchor, d, streak>>
genVars  == <<call, result, prev>>
evalVars == <<listening_task, user_answers, listening_score, feedback_lines>>
judgeVars == <<judge, evaluation>>
appVars  == <<session, request, issued, pending_ids, recorded>>
vars     == <<dbVars, dashVars, genVars, evalVars, judgeVars, appVars>>

\* what the dashboard and the submission store leave alone, what the
\* generators leave alone, what the grader leaves alone
NotDash  == <<genVars, evalVars, judgeVars, appVars>>
NotGen   == <<dbVars, dashVars, evalVars, judgeVars, appVars>>
NotEval  == <<dbVars, dashVars, genVars, judgeVars, appVars>>
NotJudge == <<dbVars, dashVars, genVars, evalVars, appVars>>
NotApp   == <<dashVars, genVars, evalVars, judgeVars>>

----------------------------------------------------------------------------
(* Bounds of the model *)

\* Longest submission history of the score specification: one more than the
\* dashboard's window, so that a submission falls out of the window.
MaxHist == 13

\* Submissions of a history that are not the zero-scored filler of user 1.
MaxSpecial == 2

\* Last day of the streak specification (the days are 0 .. MaxDay) and the
\* number of submissions made in it.
MaxDay == 4

MaxSubs == 4

\* Most questions of a task handed to the listening grader.
MaxQ == 3

\* Most words of an essay handed to the writing evaluation.
MaxWords == 90

\* Most submissions persisted, and most tasks and topics generated, in a run
\* of the application specification.
MaxRecords == 2

MaxIssued == 2

\* Histories of the streak comparison: at most MaxMono submissions, dated
\* from MonoBack days before today to the day after today.
MaxMono == 3

MonoBack == 2

\* Histories of the evaluation outcomes: at most MaxOutcomes submissions.
MaxOutcomes == 4

----------------------------------------------------------------------------
(* Python values *)

None == <<>>

Some(x) == <<x>>

Min(a, b) == IF a <= b THEN a ELSE b

RECURSIVE SumSeq(_)
\* sum(scores)
SumSeq(s) == IF s = <<>> THEN 0 ELSE Head(s) + SumSeq(Tail(s))

\* the sequence backwards (order_by(... .desc()) of an ascending sequence)
Reverse(s) == [i \in 1 .. Len(s) |-> s[Len(s) + 1 - i]]

\* seq[:n]
Take(s, n) == SubSeq(s, 1, Min(n, Len(s)))

\* A rounding that takes a tie up.
PyRoundDiv_HalfUp(num, den) == (2 * num + den) \div (2 * den)

\* round(num / den) for num >= 0, den > 0: Python rounds to the nearest
\* integer and a tie to the even one.
PyRoundDiv(num, den) ==
    LET q == num \div den
        r == num % den
    IN  IF 2 * r < den THEN q
        ELSE IF 2 * r > den THEN q + 1
        ELSE IF q % 2 = 0 THEN q ELSE q + 1

----------------------------------------------------------------------------
(* tb_submissions and the users *)

Users == {1, 2}

Types == {"WRITING", "SPEAKING", "LISTENING"}

\* Submission(user_id=..., type=..., ai_score=...); created_at defaults to
\* utcnow, whose date is taken to be date.today() (a server on UTC).
Submission(u, t, sc) ==
    [user_id |-> u, type |-> t, ai_score |-> sc, created_at |-> today]

----------------------------------------------------------------------------
(* dashboard(): overall score and level *)

\* .limit(12)
RecentLimit == 12

\* Submission.query.filter(user_id == user.id)
\*   .filter(ai_score.isnot(None)).order_by(created_at.desc()).limit(12).all()
RecentQuery(u) ==
    Take(Reverse(SelectSeq(subs,
             LAMBDA s : s.user_id = u /\ s.ai_score # None)), RecentLimit)

RECURSIVE PositiveScores_NonNegative(_)
\* A loop that keeps the zero scores (v >= 0).
PositiveScores_NonNegative(recent) ==
    IF recent = <<>> THEN <<>>
    ELSE LET v == Head(recent).ai_score[1]
         IN  (IF v >= 0 THEN <<v>> ELSE <<>>)
                \o PositiveScores_NonNegative(Tail(recent))

RECURSIVE PositiveScores(_)
\* the loop over recent: scores.append(v) if v > 0
PositiveScores(recent) ==
    IF recent = <<>> THEN <<>>
    ELSE LET v == Head(recent).ai_score[1]
         IN  (IF v > 0 THEN <<v>> ELSE <<>>) \o PositiveScores(Tail(recent))

\* round(sum(scores) / len(scores)) if scores else None
OverallScore(u) ==
    LET scores == PositiveScores(RecentQuery(u))
    IN  IF scores # <<>>
            THEN Some(PyRoundDiv(SumSeq(scores), Len(scores)))
            ELSE None

\* Thresholds that keep a boundary value in the lower band.
score_to_level_Inclusive(score) ==
    IF score <= 50 THEN "A2"
    ELSE IF score <= 65 THEN "B1"
    ELSE IF score <= 78 THEN "B2"
    ELSE IF score <= 90 THEN "C1"
    ELSE "C2"

score_to_level(score) ==
    IF score < 50 THEN "A2"
    ELSE IF score < 65 THEN "B1"
    ELSE IF score < 78 THEN "B2"
    ELSE IF score < 90 THEN "C1"
    ELSE "C2"

NoDataLabel == "--"

\* level = score_to_level(overall_score) if overall_score is not None else "-"
LevelOf(os) == IF os # None THEN score_to_level(os[1]) ELSE NoDataLabel

----------------------------------------------------------------------------
(* dashboard(): streak *)

\* all_subs of the user; practiced_days = {s.created_at.date() for s in all_subs}
PracticedDays(u) ==
    {subs[i].created_at : i \in {j \in DOMAIN subs : subs[j].user_id = u}}

\* An anchor that is always yesterday.
Anchor_Yesterday(days, t) == t - 1

\* An anchor that is always today.
Anchor_TodayOnly(days, t) == t

\* anchor = today if today in practiced_days else today - 1
Anchor(days, t) == IF t \in days THEN t ELSE t - 1

----------------------------------------------------------------------------
(* The dashboard request, one step per statement group *)

DashIdle == pc \in {"idle", "done"}

\* no generator has been called
GenIdle ==
    /\ call = None
    /\ result = None
    /\ prev = None

\* the grader has not been called
EvalIdle ==
    /\ listening_task = None
    /\ user_answers = None
    /\ listening_score = None
    /\ feedback_lines = <<>>

\* every session is empty and no request has been handled
AppIdle ==
    /\ session = [u \in Users |-> [listening_task |-> None, speaking_topic |-> None]]
    /\ request = None
    /\ issued = 0
    /\ pending_ids = [u \in Users |-> [listening_task |-> 0, speaking_topic |-> 0]]
    /\ recorded = <<>>

\* no evaluation strategy has been called
JudgeIdle ==
    /\ judge = None
    /\ evaluation = None

DashInit ==
    /\ pc = "idle"
    /\ user = None
    /\ overall_score = None
    /\ level = NoDataLabel
    /\ practiced_days = {}
    /\ anchor = 0
    /\ d = 0
    /\ streak = 0

\* A request other than the dashboard replaces the rendered page.
DashReset ==
    /\ pc' = "idle"
    /\ user' = None
    /\ overall_score' = None
    /\ level' = NoDataLabel
    /\ practiced_days' = {}
    /\ anchor' = 0
    /\ d' = 0
    /\ streak' = 0

\* dashboard() up to the while loop: both queries, the overall score, the
\* level, the anchor.
DashboardQuery(u) ==
    LET os   == OverallScore(u)
        days == PracticedDays(u)
        a    == Anchor(days, today)
    IN  /\ DashIdle
        /\ pc' = "walk"
        /\ user' = Some(u)
        /\ overall_score' = os
        /\ level' = LevelOf(os)
        /\ practiced_days' = days
        /\ anchor' = a
        /\ d' = a
        /\ streak' = 0
        /\ UNCHANGED <<dbVars, NotDash>>

\* while d in practiced_days: streak += 1; d -= 1 day
DashboardWalk ==
    /\ pc = "walk"
    /\ d \in practiced_days
    /\ streak' = streak + 1
    /\ d' = d - 1
    /\ UNCHANGED <<dbVars, pc, user, overall_score, level, practiced_days, anchor>>
    /\ UNCHANGED NotDash

\* the loop ends and the page is rendered
DashboardRender ==
    /\ pc = "walk"
    /\ d \notin practiced_days
    /\ pc' = "done"
    /\ UNCHANGED <<dbVars, user, overall_score, level, practiced_days, anchor,
                   d, streak>>
    /\ UNCHANGED NotDash

\* db.session.add(submission); db.session.commit()
InsertSubmission(u, t, sc) ==
    /\ DashIdle
    /\ subs' = Append(subs, Submission(u, t, sc))
    /\ UNCHANGED <<today, NotDash>>
    /\ DashReset

----------------------------------------------------------------------------
(* Specification of the overall score: histories of up to MaxHist          *)
(* submissions made on one day.  The filler of a history is the zero score *)
(* of a failed speaking attempt of user 1; at most MaxSpecial submissions  *)
(* are of another kind.                                                    *)

Filler == [user_id |-> 1, type |-> "SPEAKING", ai_score |-> Some(0)]

\* 50 and 55: the writing heuristic and the degraded result; None: a record
\* without a score; 100: a full listening score, of user 2.
ScoreKinds ==
    { Filler,
      [user_id |-> 1, type |-> "WRITING",   ai_score |-> Some(50)],
      [user_id |-> 1, type |-> "WRITING",   ai_score |-> Some(55)],
      [user_id |-> 1, type |-> "WRITING",   ai_score |-> None],
      [user_id |-> 2, type |-> "LISTENING", ai_score |-> Some(100)] }

IsSpecial(s) ==
    ~(s.user_id = Filler.user_id /\ s.type = Filler.type
        /\ s.ai_score = Filler.ai_score)

ScoreInsert ==
    \E k \in ScoreKinds :
        /\ Len(subs) < MaxHist
        /\ IsSpecial(k) => Len(SelectSeq(subs, IsSpecial)) < MaxSpecial
        /\ InsertSubmission(k.user_id, k.type, k.ai_score)

ScoreInit ==
    /\ subs = <<>>
    /\ today = 0
    /\ DashInit
    /\ GenIdle
    /\ EvalIdle
    /\ JudgeIdle
    /\ AppIdle

ScoreNext ==
    \/ ScoreInsert
    \/ \E u \in Users : DashboardQuery(u)
    \/ DashboardWalk
    \/ DashboardRender

SpecScore == ScoreInit /\ [][ScoreNext]_vars

----------------------------------------------------------------------------
(* Properties of the overall score and the level (SpecScore).  They are    *)
(* stated on the positions of tb_submissions, not with the operators of    *)
(* the dashboard.                                                          *)

Rendered == pc = "done"

UserId == user[1]

CEFR == {"A2", "B1", "B2", "C1", "C2"}

\* positions of the user's submissions whose score is not None
ScoredIdx(u) ==
    {i \in DOMAIN subs : subs[i].user_id = u /\ subs[i].ai_score # None}

ScoreAt(i) == subs[i].ai_score[1]

\* the n most recent positions of a set of positions
MostRecent(idx, n) == {i \in idx : Cardinality({j \in idx : j > i}) < n}

\* the 12 most recent scored submissions
WindowIdx(u) == MostRecent(ScoredIdx(u), 12)

\* those of the window with a strictly positive score
WindowPositiveIdx(u) == {i \in WindowIdx(u) : ScoreAt(i) > 0}

RECURSIVE SumAt(_)
SumAt(idx) ==
    IF idx = {} THEN 0
    ELSE LET i == CHOOSE j \in idx : TRUE
         IN  ScoreAt(i) + SumAt(idx \ {i})

\* r is an integer nearest to the average of the scores at idx
NearestToAverage(r, idx) ==
    LET n == Cardinality(idx)
        e == 2 * (SumAt(idx) - r * n)
    IN  -n <= e /\ e <= n

\* r is the average of the scores at idx as Python's round gives it: the
\* nearest integer, the even one at a tie
IsRoundedAverage(r, idx) ==
    LET n == Cardinality(idx)
        e == 2 * (SumAt(idx) - r * n)
    IN  /\ NearestToAverage(r, idx)
        /\ (e = n \/ e = -n) => r % 2 = 0

\* C1 as stated: the overall score is the rounded average of the 12 most
\* recent submissions with a strictly positive score (zero and missing scores
\* skipped before the 12 are chosen), and is undefined only when the user has
\* no submission with a strictly positive score.
C1_Original ==
    Rendered =>
        LET pos == {i \in ScoredIdx(UserId) : ScoreAt(i) > 0}
            win == MostRecent(pos, 12)
        IN  IF pos = {} THEN overall_score = None
            ELSE /\ overall_score # None
                 /\ IsRoundedAverage(overall_score[1], win)

\* C1 as amended: the overall score is the rounded average (nearest integer,
\* a tie to the even one) of the strictly positive scores among the 12 most
\* recent submissions with a non-null score; a zero score takes a place of
\* the window and a missing score takes none; the overall score is undefined
\* exactly when none of those 12 has a strictly positive score.
C1_OverallScore ==
    Rendered =>
        LET win == WindowPositiveIdx(UserId)
        IN  /\ overall_score = None <=> win = {}
            /\ win # {} => IsRoundedAverage(overall_score[1], win)

\* A history of 13 scored submissions in which a zero score holds a place of
\* the window, a positive score older than the window is left out and a
\* positive score of the window is averaged.
C1_Witness ==
    /\ Rendered
    /\ Cardinality(ScoredIdx(UserId)) > 12
    /\ \E i \in ScoredIdx(UserId) \ WindowIdx(UserId) : ScoreAt(i) > 0
    /\ \E i \in WindowIdx(UserId) : ScoreAt(i) = 0
    /\ WindowPositiveIdx(UserId) # {}
    /\ overall_score # None

\* C2: among the 12 most recent submissions with a non-null score those with
\* score <= 0 are excluded from the average; when all of them are excluded or
\* there are none, the overall score is "no data" and the level is the
\* no-data label, never a CEFR label; otherwise the level is a CEFR label.
C2_ExcludedScores ==
    Rendered =>
        LET win == WindowPositiveIdx(UserId)
        IN  IF win = {}
                THEN /\ overall_score = None
                     /\ level = NoDataLabel
                     /\ level \notin CEFR
                ELSE /\ overall_score # None
                     /\ NearestToAverage(overall_score[1], win)
                     /\ overall_score[1] > 0
                     /\ level \in CEFR

\* All 12 submissions of the window have score 0: no data.
C2_Witness ==
    /\ Rendered
    /\ Cardinality(WindowIdx(UserId)) = 12
    /\ \A i \in WindowIdx(UserId) : ScoreAt(i) <= 0
    /\ overall_score = None
    /\ level = NoDataLabel

----------------------------------------------------------------------------
(* Specification of score_to_level as a function: the overall score is     *)
(* drawn from ScoreRange and the dashboard's level assignment is applied.  *)

ScoreRange == 0 .. 120

LevelInit ==
    /\ subs = <<>>
    /\ today = 0
    /\ pc = "idle"
    /\ user = None
    /\ overall_score \in {Some(s) : s \in ScoreRange}
    /\ level = NoDataLabel
    /\ practiced_days = {}
    /\ anchor = 0
    /\ d = 0
    /\ streak = 0
    /\ GenIdle
    /\ EvalIdle
    /\ JudgeIdle
    /\ AppIdle

\* level = score_to_level(overall_score) if overall_score is not None else ...
AssignLevel ==
    /\ pc = "idle"
    /\ level' = LevelOf(overall_score)
    /\ pc' = "done"
    /\ UNCHANGED <<dbVars, user, overall_score, practiced_days, anchor, d, streak>>
    /\ UNCHANGED NotDash

LevelNext == AssignLevel

SpecLevel == LevelInit /\ [][LevelNext]_vars

\* the thresholds as the claim gives them
LevelTable(s) ==
    CASE s < 50 -> "A2"
      [] 50 <= s /\ s < 65 -> "B1"
      [] 65 <= s /\ s < 78 -> "B2"
      [] 78 <= s /\ s < 90 -> "C1"
      [] s >= 90 -> "C2"

\* C3: score_to_level maps every defined overall score to exactly one of the
\* five labels with half-open thresholds: below 50 A2, 50 to below 65 B1, 65
\* to below 78 B2, 78 to below 90 C1, 90 and above C2; the boundary values
\* 50, 65, 78 and 90 land in the higher band.
C3_ScoreToLevel ==
    Rendered =>
        /\ level \in CEFR
        /\ level = LevelTable(overall_score[1])
        /\ overall_score[1] = 49 => level = "A2"
        /\ overall_score[1] = 50 => level = "B1"
        /\ overall_score[1] = 64 => level = "B1"
        /\ overall_score[1] = 65 => level = "B2"
        /\ overall_score[1] = 77 => level = "B2"
        /\ overall_score[1] = 78 => level = "C1"
        /\ overall_score[1] = 89 => level = "C1"
        /\ overall_score[1] = 90 => level = "C2"

\* The level of the boundary score 78 has been assigned and is C1.
C3_Witness ==
    /\ Rendered
    /\ overall_score = Some(78)
    /\ level = "C1"

----------------------------------------------------------------------------
(* Specification of the streak: days pass, the two users submit on some of *)
(* them, and the dashboard is asked for on any day.                        *)

\* The kinds of submission the three submit handlers store: a degraded
\* writing result, a failed speaking attempt, a full listening score.
StreakKinds ==
    { [user_id |-> 1, type |-> "WRITING",   ai_score |-> Some(55)],
      [user_id |-> 1, type |-> "SPEAKING",  ai_score |-> Some(0)],
      [user_id |-> 2, type |-> "LISTENING", ai_score |-> Some(100)] }

StreakInsert ==
    \E k \in StreakKinds :
        /\ Len(subs) < MaxSubs
        /\ InsertSubmission(k.user_id, k.type, k.ai_score)

\* midnight: date.today() moves on; a page rendered before is stale
AdvanceDay ==
    /\ DashIdle
    /\ today < MaxDay
    /\ today' = today + 1
    /\ UNCHANGED <<subs, NotDash>>
    /\ DashReset

StreakInit ==
    /\ subs = <<>>
    /\ today = 0
    /\ DashInit
    /\ GenIdle
    /\ EvalIdle
    /\ JudgeIdle
    /\ AppIdle

StreakNext ==
    \/ StreakInsert
    \/ AdvanceDay
    \/ \E u \in Users : DashboardQuery(u)
    \/ DashboardWalk
    \/ DashboardRender

SpecStreak == StreakInit /\ [][StreakNext]_vars

\* the days on which the user has a submission, of any type and score
DaysOf(u) == {subs[i].created_at : i \in {j \in DOMAIN subs : subs[j].user_id = u}}

\* the anchor as the claim gives it
ClaimAnchor(u) == IF today \in DaysOf(u) THEN today ELSE today - 1

\* days a - n + 1 .. a all hold a submission of the user
IsRun(u, a, n) == \A k \in 0 .. n - 1 : a - k \in DaysOf(u)

\* n is the length of the maximal run of practised days that ends at a
IsMaximalRun(u, a, n) == IsRun(u, a, n) /\ a - n \notin DaysOf(u)

\* C4: the streak is the length of the maximal run of consecutive calendar
\* days, each holding at least one submission of any modality and score, that
\* ends at the anchor (today if today has a submission, yesterday otherwise);
\* it is 0 when neither today nor yesterday has a submission; the walk stops
\* at the first gap and terminates: while it runs it has counted streak
\* practised days from the anchor down, never more than there are practised
\* days.  Days {today, today-1, today-2, today-4} give 3; yesterday alone
\* gives 1.
C4_Streak ==
    /\ pc \in {"walk", "done"} =>
          /\ anchor = ClaimAnchor(UserId)
          /\ d = anchor - streak
          /\ IsRun(UserId, anchor, streak)
          /\ streak <= Cardinality(DaysOf(UserId))
    /\ Rendered =>
          /\ IsMaximalRun(UserId, ClaimAnchor(UserId), streak)
          /\ (today \notin DaysOf(UserId) /\ today - 1 \notin DaysOf(UserId))
                => streak = 0
          /\ DaysOf(UserId) = {} => streak = 0
          /\ DaysOf(UserId) = {today, today - 1, today - 2, today - 4}
                => streak = 3
          /\ DaysOf(UserId) = {today - 1} => streak = 1

\* The history {today, today-1, today-2, today-4} has been walked: 3.
C4_Witness ==
    /\ Rendered
    /\ DaysOf(UserId) = {today, today - 1, today - 2, today - 4}
    /\ streak = 3

----------------------------------------------------------------------------
(* Python strings *)

Whitespace == {" ", "\n", "\t"}

RECURSIVE LStrip(_)
LStrip(s) ==
    IF s # <<>> /\ Head(s) \in Whitespace THEN LStrip(Tail(s)) ELSE s

\* str.strip() of a token sequence
Strip(s) == Reverse(LStrip(Reverse(LStrip(s))))

RECURSIVE Flat(_)
\* the string a token sequence spells
Flat(s) == IF s = <<>> THEN "" ELSE Head(s) \o Flat(Tail(s))

Range(s) == {s[i] : i \in DOMAIN s}

----------------------------------------------------------------------------
(* The fallback banks.  bank is the dict of fallback_listening_task, one    *)
(* entry per level; a "why" is kept as a token sequence because the grader  *)
(* strips it.                                                               *)

BankA2 ==
    [ title |-> "A morning at the cafe",
      passage |-> "Sofia goes to a small cafe near her home. She orders a coffe" \o
                  "e and a sandwich. The cafe is busy, so she waits for ten min" \o
                  "utes. When her food arrives, she sits by the window and watc" \o
                  "hes people walking in the street.",
      questions |-> <<
          [ question |-> "Where does Sofia go?",
            options |-> <<
                "To a cafe near her home",
                "To a park",
                "To a supermarket",
                "To a library" >>,
            answer |-> "To a cafe near her home",
            why |-> << "The passage says she goes to a small cafe near her home." >> ],
          [ question |-> "Why does she wait for ten minutes?",
            options |-> <<
                "Because the cafe is busy",
                "Because she forgot her money",
                "Because the cafe is closed",
                "Because she meets a friend" >>,
            answer |-> "Because the cafe is busy",
            why |-> << "It explicitly says the cafe is busy." >> ],
          [ question |-> "Where does she sit?",
            options |-> <<
                "By the window",
                "Outside",
                "Near the kitchen",
                "At the bar" >>,
            answer |-> "By the window",
            why |-> << "It says she sits by the window." >> ] >> ]

BankB1 ==
    [ title |-> "A new hobby",
      passage |-> "Last month, Daniel decided to learn photography. At first, h" \o
                  "e used his phone, but soon he bought a simple camera. Every " \o
                  "Saturday morning, he walks around his city and takes picture" \o
                  "s of buildings and markets. He uploads his best photos onlin" \o
                  "e and asks for feedback. Little by little, he is improving.",
      questions |-> <<
          [ question |-> "Why did Daniel buy a camera?",
            options |-> <<
                "He wanted better photos than his phone",
                "His phone was lost",
                "He needed it for work",
                "A friend gave him money" >>,
            answer |-> "He wanted better photos than his phone",
            why |-> << "He started with a phone, then bought a camera to improve." >> ],
          [ question |-> "When does he practice?",
            options |-> <<
                "Every Saturday morning",
                "Every evening",
                "On Sundays",
                "Only on holidays" >>,
            answer |-> "Every Saturday morning",
            why |-> << "The passage says every Saturday morning." >> ],
          [ question |-> "How does he improve?",
            options |-> <<
                "He asks for feedback online",
                "He stops taking photos",
                "He only reads books",
                "He changes cities" >>,
            answer |-> "He asks for feedback online",
            why |-> << "He uploads and asks for feedback." >> ] >> ]

BankB2 ==
    [ title |-> "Remote work changes",
      passage |-> "Many companies introduced remote work to reduce costs and of" \o
                  "fer employees more flexibility. However, some managers notic" \o
                  "ed that new employees sometimes felt isolated and learned mo" \o
                  "re slowly. To solve this, several teams created short daily " \o
                  "check-ins and paired newcomers with mentors. These changes h" \o
                  "elped people feel connected without removing the benefits of" \o
                  " working from home.",
      questions |-> <<
          [ question |-> "What problem did some new employees have?",
            options |-> <<
                "They felt isolated",
                "They were paid less",
                "They had no internet",
                "They moved abroad" >>,
            answer |-> "They felt isolated",
            why |-> << "It says new employees sometimes felt isolated." >> ],
          [ question |-> "What solution is mentioned?",
            options |-> <<
                "Daily check-ins and mentors",
                "Longer meetings every day",
                "No communication",
                "Returning to full-time office work" >>,
            answer |-> "Daily check-ins and mentors",
            why |-> << "Those are the two measures described." >> ],
          [ question |-> "What was the goal of the changes?",
            options |-> <<
                "To feel connected while keeping flexibility",
                "To remove remote work",
                "To reduce salaries",
                "To hire fewer people" >>,
            answer |-> "To feel connected while keeping flexibility",
            why |-> << "The final sentence states that balance." >> ] >> ]

BankC1 ==
    [ title |-> "Attention and multitasking",
      passage |-> "Multitasking is often praised as a modern skill, yet researc" \o
                  "h suggests that frequent task switching can reduce accuracy." \o
                  " When people jump between messages, documents, and meetings," \o
                  " their brains pay a 'switching cost'-a short period of reori" \o
                  "entation. Over time, this can create the illusion of product" \o
                  "ivity while quietly lowering the quality of decisions.",
      questions |-> <<
          [ question |-> "What does task switching often reduce?",
            options |-> <<
                "Accuracy",
                "Sleep",
                "Team size",
                "Creativity in all cases" >>,
            answer |-> "Accuracy",
            why |-> << "The passage says it can reduce accuracy." >> ],
          [ question |-> "What is the 'switching cost'?",
            options |-> <<
                "A reorientation period",
                "A financial penalty",
                "A tax for companies",
                "A training program" >>,
            answer |-> "A reorientation period",
            why |-> << "It is defined in the passage." >> ],
          [ question |-> "What illusion may multitasking create?",
            options |-> <<
                "An illusion of productivity",
                "An illusion of boredom",
                "An illusion of perfect memory",
                "An illusion of free time" >>,
            answer |-> "An illusion of productivity",
            why |-> << "It says it creates the illusion of productivity." >> ] >> ]

BankC2 ==
    [ title |-> "Interpretation and nuance",
      passage |-> "In complex debates, participants may agree on facts yet disa" \o
                  "gree profoundly on meaning. This happens because interpretat" \o
                  "ion is shaped by assumptions, values, and the context people" \o
                  " consider relevant. As a result, language becomes less a too" \o
                  "l for transferring information and more a medium for negotia" \o
                  "ting nuance.",
      questions |-> <<
          [ question |-> "Why can people disagree even when they share facts?",
            options |-> <<
                "Because interpretation differs",
                "Because facts are always false",
                "Because context is irrelevant",
                "Because language is fixed" >>,
            answer |-> "Because interpretation differs",
            why |-> << "It says disagreement comes from interpretation shaped by ass" \o
                       "umptions/values/context." >> ],
          [ question |-> "What shapes interpretation, according to the passage?",
            options |-> <<
                "Assumptions, values, and context",
                "Only grammar rules",
                "Only emotions",
                "Only statistics" >>,
            answer |-> "Assumptions, values, and context",
            why |-> << "Those three are explicitly listed." >> ],
          [ question |-> "How is language described in complex debates?",
            options |-> <<
                "A medium for negotiating nuance",
                "A perfect calculator",
                "Only a dictionary",
                "A barrier to meaning" >>,
            answer |-> "A medium for negotiating nuance",
            why |-> << "That's the final point." >> ] >> ]

\* the list topics of fallback_speaking_topic
topics ==
    <<
      [ title |-> "Daily Routine",
        prompt |-> "Describe your daily routine and say what you would like to i" \o
                   "mprove.",
        questions |-> <<
            "What do you usually do in the morning?",
            "What is the hardest part of your day?",
            "What would you change if you had more time?" >> ],
      [ title |-> "A Place You Love",
        prompt |-> "Talk about a place you love and explain why it is special to" \o
                   " you.",
        questions |-> <<
            "Where is it and what does it look like?",
            "What do you do there?",
            "Why does it matter to you?" >> ],
      [ title |-> "Technology in Daily Life",
        prompt |-> "Do you think technology makes life better or worse? Explain " \o
                   "your opinion.",
        questions |-> <<
            "What technology do you use most?",
            "What are the benefits?",
            "What are the downsides?" >> ],
      [ title |-> "Learning English",
        prompt |-> "Talk about your experience learning English and what motivat" \o
                   "es you.",
        questions |-> <<
            "What is hardest for you: speaking, listening, writing, or re" \o
            "ading?",
            "What helps you improve the most?",
            "What is your goal for the next 3 months?" >> ] >>

bank ==
    [l \in {"A2", "B1", "B2", "C1", "C2"} |->
        CASE l = "A2" -> BankA2
          [] l = "B1" -> BankB1
          [] l = "B2" -> BankB2
          [] l = "C1" -> BankC1
          [] l = "C2" -> BankC2]

\* random.choice(topics): the draw is the argument choice
fallback_speaking_topic(choice) == topics[choice]

\* hashlib.sha1(...).hexdigest()[:12], kept abstract and collision-free: the
\* digest of a text is a string that determines the text.
Sha1Hex12(text) == "sha1[" \o text \o "]"

_task_id_for(text) == Sha1Hex12(text)

Instructions == "Listen to the audio. Then answer the questions."

\* A lookup that loses the last question of the entry.
BankGet_DropQuestion(lvl) ==
    LET base == IF lvl \in DOMAIN bank THEN bank[lvl] ELSE bank["B1"]
    IN  [base EXCEPT !.questions = SubSeq(@, 1, Len(@) - 1)]

\* bank.get(level, bank["B1"])
BankGet(lvl) == IF lvl \in DOMAIN bank THEN bank[lvl] ELSE bank["B1"]

\* A fingerprint that also hashes the level.
fallback_listening_task_IdWithLevel(lvl) ==
    LET base == BankGet(lvl)
        txt  == lvl \o "\n" \o base.title \o "\n" \o base.passage
    IN  [ task_id |-> _task_id_for(txt),
          level |-> lvl,
          title |-> base.title,
          instructions |-> Instructions,
          passage |-> base.passage,
          questions |-> base.questions,
          audio_url |-> None,
          audio_mimetype |-> None,
          audio_path |-> None,
          source |-> "fallback" ]

fallback_listening_task(lvl) ==
    LET base == BankGet(lvl)
        txt  == base.title \o "\n" \o base.passage
    IN  [ task_id |-> _task_id_for(txt),
          level |-> lvl,
          title |-> base.title,
          instructions |-> Instructions,
          passage |-> base.passage,
          questions |-> base.questions,
          audio_url |-> None,
          audio_mimetype |-> None,
          audio_path |-> None,
          source |-> "fallback" ]

----------------------------------------------------------------------------
(* The AI text generation call as the generators see it.  An outcome is     *)
(*   no_client : get_openai_client() is None (no OPENAI_API_KEY)            *)
(*   raise     : client.responses.create raises (network, quota, ...)       *)
(*   malformed : resp.output_text is not JSON, json.loads raises            *)
(*   json      : json.loads returns data                                    *)
(* A JSON string that the code strips is [t |-> "str", v |-> tokens]; a     *)
(* JSON number is [t |-> "num", v |-> n].                                   *)

JStr(tokens) == [t |-> "str", v |-> tokens]

JNum(n) == [t |-> "num", v |-> n]

NoClient == [kind |-> "no_client"]

AIFailures ==
    { NoClient,
      [kind |-> "raise", error |-> "APIConnectionError"],
      [kind |-> "raise", error |-> "insufficient_quota"],
      [kind |-> "malformed"] }

\* strftime("%Y%m%d_%H%M%S") of utcnow at the call
UtcNowStamp == "20260101_120000"

\* The steps of the TTS block that can raise, in order: audio.speech.create,
\* reading the audio bytes, save_path.write_bytes, url_for.
TTSOutcomes ==
    {"ok", "create_raises", "read_raises", "write_raises", "url_for_raises"}

\* the try block around TTS: the three assignments to task, in order
SynthesizeAudio(task, tts) ==
    LET filename == "listening_" \o UtcNowStamp \o "_" \o task.task_id \o ".mp3"
        withPath == [task EXCEPT !.audio_path = Some("uploads/" \o filename)]
        withUrl  == [withPath EXCEPT !.audio_url = Some("/uploads/" \o filename)]
        withMime == [withUrl EXCEPT !.audio_mimetype = Some("audio/mpeg")]
    IN  CASE tts \in {"create_raises", "read_raises", "write_raises"} -> task
          [] tts = "url_for_raises" -> withPath
          [] tts = "ok" -> withMime

\* the statements of the outer try block up to the task dict raise: the call
\* or json.loads fails, a key is missing, or .strip() is not a str method
TaskTextRaises(ai) ==
    IF ai.kind \in {"raise", "malformed"} THEN TRUE
    ELSE IF ai.kind # "json" THEN FALSE
    ELSE IF "title" \notin DOMAIN ai.data THEN TRUE
    ELSE IF ai.data.title.t # "str" THEN TRUE
    ELSE IF "passage" \notin DOMAIN ai.data THEN TRUE
    ELSE IF ai.data.passage.t # "str" THEN TRUE
    ELSE "questions" \notin DOMAIN ai.data

\* the task dict built from data (before TTS)
AITask(lvl, data) ==
    LET title   == Flat(Strip(data.title.v))
        passage == Flat(Strip(data.passage.v))
    IN  [ task_id |-> _task_id_for(title \o "\n" \o passage),
          level |-> lvl,
          title |-> title,
          instructions |-> Instructions,
          passage |-> passage,
          questions |-> data.questions,
          audio_url |-> None,
          audio_mimetype |-> None,
          audio_path |-> None,
          source |-> "openai" ]

generate_listening_task(lvl, ai, tts) ==
    IF ai.kind = "no_client" THEN fallback_listening_task(lvl)
    ELSE IF TaskTextRaises(ai) THEN fallback_listening_task(lvl)
    ELSE SynthesizeAudio(AITask(lvl, ai.data), tts)

\* level only enters the prompt
generate_speaking_topic(lvl, ai, choice) ==
    IF ai.kind = "no_client" THEN fallback_speaking_topic(choice)
    ELSE IF ai.kind \in {"raise", "malformed"} THEN fallback_speaking_topic(choice)
    ELSE ai.data

\* json_schema_format of generate_listening_task: an object with exactly the
\* keys title, passage (strings) and questions, an array of exactly 3 objects
\* with exactly the keys question, options (exactly 4 strings), answer, why
ListeningQuestionSchemaOK(q) ==
    /\ DOMAIN q = {"question", "options", "answer", "why"}
    /\ Len(q.options) = 4

ListeningSchemaOK(data) ==
    /\ DOMAIN data = {"title", "passage", "questions"}
    /\ data.title.t = "str"
    /\ data.passage.t = "str"
    /\ Len(data.questions) = 3
    /\ \A i \in DOMAIN data.questions :
          ListeningQuestionSchemaOK(data.questions[i])

\* json_schema_format of generate_speaking_topic: an object with exactly the
\* keys title, prompt and questions, an array of 3 to 5 strings
SpeakingSchemaOK(data) ==
    /\ DOMAIN data = {"title", "prompt", "questions"}
    /\ Len(data.questions) >= 3
    /\ Len(data.questions) <= 5

----------------------------------------------------------------------------
(* Specification of the generators: generate_listening_task and            *)
(* generate_speaking_topic are called with every level, AI outcome, TTS     *)
(* outcome and random draw of the sets below.  A run holds two listening    *)
(* tasks to compare, prev and result: once prev is set no further call is   *)
(* made.                                                                    *)

Levels == {"A2", "B1", "B2", "C1", "C2"}

\* a level that is none of the five, as a direct caller may pass
OtherLevel == "XX"

AIOptions == <<"a", "b", "c", "d">>

\* a question as the schema of generate_listening_task requires it
GoodQuestion(ans) ==
    [question |-> "q?", options |-> AIOptions, answer |-> ans, why |-> <<"w">>]

\* question lists of an AI response: three schema-conforming questions; three
\* whose last answer is none of its options; three whose last has three
\* options; none
AIQuestionLists ==
    { << GoodQuestion("a"), GoodQuestion("b"), GoodQuestion("c") >>,
      << GoodQuestion("a"), GoodQuestion("b"), GoodQuestion("A") >>,
      << GoodQuestion("a"), GoodQuestion("b"),
         [GoodQuestion("a") EXCEPT !.options = <<"a", "b", "c">>] >>,
      << >> }

AITitles == {JStr(<<"a">>), JStr(<<"a", "\n", "b">>), JStr(<<" ", "a">>)}

AIPassages == {JStr(<<"c">>), JStr(<<"b", "\n", "c">>), JStr(<<"c", " ">>)}

\* the documents json.loads gives for a listening response
ListeningDatas ==
    {[title |-> t, passage |-> p, questions |-> q] :
        t \in AITitles, p \in AIPassages, q \in AIQuestionLists}
    \cup {[title |-> JNum(7), passage |-> p, questions |-> q] :
        p \in {JStr(<<"c">>)}, q \in AIQuestionLists}
    \cup {[passage |-> JStr(<<"c">>),
           questions |-> << GoodQuestion("a"), GoodQuestion("b"), GoodQuestion("c") >>],
          [title |-> JStr(<<"a">>),
           questions |-> << GoodQuestion("a"), GoodQuestion("b"), GoodQuestion("c") >>],
          [title |-> JStr(<<"a">>), passage |-> JStr(<<"c">>)]}

ListeningAI == AIFailures \cup {[kind |-> "json", data |-> x] : x \in ListeningDatas}

\* the documents json.loads gives for a speaking response
SpeakingDatas ==
    { [title |-> "T", prompt |-> "P", questions |-> <<"q1", "q2", "q3">>],
      [title |-> "T", prompt |-> "P", questions |-> << >>],
      [title |-> "T"] }

SpeakingAI == AIFailures \cup {[kind |-> "json", data |-> x] : x \in SpeakingDatas}

\* the listening task the last call returned, if it was a listening call
LastListeningTask ==
    IF call # None /\ call.fn = "generate_listening_task" THEN result ELSE prev

\* a call whose AI outcome stops it before the task dict: every level
CallListeningFallback ==
    \E lvl \in Levels \cup {OtherLevel}, ai \in ListeningAI :
        /\ prev = None
        /\ (IF ai.kind = "no_client" THEN TRUE ELSE TaskTextRaises(ai))
        /\ call' = [fn |-> "generate_listening_task", level |-> lvl, ai |-> ai,
                    tts |-> "ok"]
        /\ result' = generate_listening_task(lvl, ai, "ok")
        /\ prev' = LastListeningTask
        /\ UNCHANGED NotGen

\* a call that builds the task dict and attempts TTS
CallListeningAI ==
    \E lvl \in {"B1", "C2"}, ai \in ListeningAI, tts \in TTSOutcomes :
        /\ prev = None
        /\ ~(IF ai.kind = "no_client" THEN TRUE ELSE TaskTextRaises(ai))
        /\ call' = [fn |-> "generate_listening_task", level |-> lvl, ai |-> ai,
                    tts |-> tts]
        /\ result' = generate_listening_task(lvl, ai, tts)
        /\ prev' = LastListeningTask
        /\ UNCHANGED NotGen

CallSpeaking ==
    \E ai \in SpeakingAI, choice \in DOMAIN topics :
        /\ prev = None
        /\ call' = [fn |-> "generate_speaking_topic", level |-> "B1", ai |-> ai,
                    choice |-> choice]
        /\ result' = generate_speaking_topic("B1", ai, choice)
        /\ prev' = LastListeningTask
        /\ UNCHANGED NotGen

GenInit ==
    /\ subs = <<>>
    /\ today = 0
    /\ DashInit
    /\ GenIdle
    /\ EvalIdle
    /\ JudgeIdle
    /\ AppIdle

GenNext ==
    \/ CallListeningFallback
    \/ CallListeningAI
    \/ CallSpeaking

SpecGen == GenInit /\ [][GenNext]_vars

----------------------------------------------------------------------------
(* Properties of the generators (SpecGen) *)

ListeningCalled == call # None /\ call.fn = "generate_listening_task"

SpeakingCalled == call # None /\ call.fn = "generate_speaking_topic"

\* the AI call failed: no credentials, an error, a malformed response, or a
\* response that violates the schema the call required
ListeningAIFailed(ai) == ai.kind # "json" \/ ~ListeningSchemaOK(ai.data)

SpeakingAIFailed(ai) == ai.kind # "json" \/ ~SpeakingSchemaOK(ai.data)

\* the task is the bank's task of the level, with provenance "fallback"
IsBankTask(t, lvl) ==
    /\ t.source = "fallback"
    /\ t.title = BankGet(lvl).title
    /\ t.passage = BankGet(lvl).passage
    /\ t.questions = BankGet(lvl).questions

\* C7: whenever the AI text generation call fails in any way (no credentials,
\* an error, a malformed response, a response that violates the required
\* schema), generate_listening_task returns the fallback task of the level
\* and generate_speaking_topic returns one of the four fixed topics.
C7_FallbackOnFailure ==
    /\ (ListeningCalled /\ ListeningAIFailed(call.ai))
          => IsBankTask(result, call.level)
    /\ (SpeakingCalled /\ SpeakingAIFailed(call.ai))
          => result \in Range(topics)

\* C8: every listening task generate_listening_task returns, AI-generated or
\* fallback, carries exactly 3 questions, each with exactly 4 options and a
\* correct answer that equals one of its options.
C8_ThreeQuestionsFourOptions ==
    ListeningCalled =>
        /\ Len(result.questions) = 3
        /\ \A i \in DOMAIN result.questions :
              /\ Len(result.questions[i].options) = 4
              /\ result.questions[i].answer
                    \in Range(result.questions[i].options)

\* the call built the AI task (its text did not raise)
AITaskBuilt ==
    /\ ListeningCalled
    /\ call.ai.kind = "json"
    /\ ~TaskTextRaises(call.ai)

\* C9: when text-to-speech, or saving or referencing its audio, fails at any
\* step after the AI task text was built, the call returns that AI task with
\* title, passage, questions, fingerprint and provenance unchanged and with
\* audio_url, audio_path and audio_mimetype all None.
C9_AudioStaysNull ==
    (AITaskBuilt /\ call.tts # "ok") =>
        /\ result.source = "openai"
        /\ result.title = Flat(Strip(call.ai.data.title.v))
        /\ result.passage = Flat(Strip(call.ai.data.passage.v))
        /\ result.questions = call.ai.data.questions
        /\ result.task_id = Sha1Hex12(result.title \o "\n" \o result.passage)
        /\ result.audio_url = None
        /\ result.audio_path = None
        /\ result.audio_mimetype = None

\* two listening tasks are held
TwoTasks == ListeningCalled /\ prev # None

\* C10 as stated: identical title and body give the same fingerprint, and any
\* two tasks that differ in title or in body get different fingerprints.
C10_Original ==
    TwoTasks =>
        (prev.task_id = result.task_id
            <=> (prev.title = result.title /\ prev.passage = result.passage))

\* C10 as amended: the fingerprint of a task is a function of the text
\* title + newline + body only (not of the level, the audio reference or the
\* provenance): it is the digest of that text, so tasks with identical title
\* and body have the same fingerprint, and tasks with different fingerprints
\* differ in title or in body.
C10_FingerprintOfText ==
    /\ ListeningCalled =>
          result.task_id = Sha1Hex12(result.title \o "\n" \o result.passage)
    /\ TwoTasks =>
          /\ (prev.title = result.title /\ prev.passage = result.passage)
                => prev.task_id = result.task_id
          /\ prev.task_id # result.task_id
                => (prev.title # result.title \/ prev.passage # result.passage)

\* Two tasks with the same title and body that differ in level have the same
\* fingerprint.
C10_Witness ==
    /\ TwoTasks
    /\ prev.title = result.title
    /\ prev.passage = result.passage
    /\ prev.level # result.level
    /\ prev.task_id = result.task_id

----------------------------------------------------------------------------
(* evaluate_listening_answers.  The score correct / total * 100.0 is kept   *)
(* as the exact fraction [num, den]; the comparisons with 100 and 50 are     *)
(* those of the fraction.                                                    *)

Digits == <<"0", "1", "2", "3", "4", "5", "6", "7", "8", "9">>

RECURSIVE IntStr(_)
\* str(n) for n >= 0
IntStr(n) ==
    IF n < 10 THEN Digits[n + 1]
    ELSE IntStr(n \div 10) \o Digits[(n % 10) + 1]

\* f"{x}" of a str or None
FmtStr(opt) == IF opt = None THEN "None" ELSE opt[1]

\* expected = q.get("answer")
Expected(q) == IF "answer" \in DOMAIN q THEN Some(q.answer) ELSE None

\* got = user_answers[i] if i < len(user_answers) else None   (i from 1 here)
Got(answers, i) == IF i <= Len(answers) THEN answers[i] ELSE None

\* q.get('why', '').strip()
Why(q) == IF "why" \in DOMAIN q THEN Flat(Strip(q.why)) ELSE ""

\* A line that numbers the questions from 0.
CorrectionLine_ZeroBased(i, q) ==
    "Q" \o IntStr(i - 1) \o ": Correct answer is '" \o FmtStr(Expected(q))
        \o "'. " \o Why(q)

\* f"Q{i+1}: Correct answer is '{expected}'. {q.get('why', '').strip()}"
\* (i is the question's number, from 1)
CorrectionLine(i, q) ==
    "Q" \o IntStr(i) \o ": Correct answer is '" \o FmtStr(Expected(q))
        \o "'. " \o Why(q)

RECURSIVE GradeLoop(_, _, _)
\* the for loop over the questions from the one numbered i on: the number of
\* matches and the correction lines it appends
GradeLoop(questions, answers, i) ==
    IF i > Len(questions) THEN [correct |-> 0, lines |-> <<>>]
    ELSE LET q    == questions[i]
             rest == GradeLoop(questions, answers, i + 1)
         IN  IF Got(answers, i) = Expected(q)
                 THEN [correct |-> rest.correct + 1, lines |-> rest.lines]
                 ELSE [correct |-> rest.correct,
                       lines |-> <<CorrectionLine(i, q)>> \o rest.lines]

\* A score in whole percent.
ListeningScore_WholePercent(correct, total) ==
    IF total # 0 THEN [num |-> (correct * 100) \div total, den |-> 1]
    ELSE [num |-> 0, den |-> 1]

\* score = (correct / total * 100.0) if total else 0.0
ListeningScore(correct, total) ==
    IF total # 0 THEN [num |-> correct * 100, den |-> total]
    ELSE [num |-> 0, den |-> 1]

RemarkExcellent == "Excellent - all answers correct. Try a higher level next time."

RemarkReview ==
    "Review the audio once more and focus on keywords (names, numbers, cause-effect)."

TipLowerLevel == "Tip: Use a lower level for 2-3 days, then step up again."

\* task.get("questions", [])
QuestionsOf(t) == IF "questions" \in DOMAIN t THEN t.questions ELSE <<>>

evaluate_listening_answers(t, answers) ==
    LET questions == QuestionsOf(t)
        total     == Len(questions)
        loop      == GradeLoop(questions, answers, 1)
        sc        == ListeningScore(loop.correct, total)
        lines     ==
            IF sc.num = 100 * sc.den
                THEN <<RemarkExcellent>> \o loop.lines
                ELSE <<RemarkReview>> \o loop.lines
                        \o (IF sc.num < 50 * sc.den THEN <<TipLowerLevel>> ELSE <<>>)
    IN  [score |-> sc, feedback_lines |-> lines]

----------------------------------------------------------------------------
(* Specification of the listening grader: a task is drawn (a fallback task *)
(* or an AI task with up to MaxQ questions), and the grader is applied to  *)
(* an answer list of any length up to one more than the questions.         *)

\* questions of a drawn AI task: with a why to strip, with a plain why,
\* without a why
EvalQuestions ==
    { [question |-> "q?", options |-> AIOptions, answer |-> "a",
       why |-> <<" ", "w", "\n">>],
      [question |-> "q?", options |-> AIOptions, answer |-> "b",
       why |-> <<"v">>],
      [question |-> "q?", options |-> AIOptions, answer |-> "a"] }

RECURSIVE SeqsOfLen(_, _)
SeqsOfLen(S, n) ==
    IF n = 0 THEN {<<>>}
    ELSE {Append(x, e) : x \in SeqsOfLen(S, n - 1), e \in S}

EvalQuestionLists == UNION {SeqsOfLen(EvalQuestions, n) : n \in 0 .. MaxQ}

EvalTasks ==
    {fallback_listening_task(l) : l \in Levels}
    \cup {generate_listening_task("B1",
              [kind |-> "json",
               data |-> [title |-> JStr(<<"a">>), passage |-> JStr(<<"c">>),
                         questions |-> qs]], "ok") : qs \in EvalQuestionLists}

\* what request.form.get(f"q{i}") can be for question i: nothing, or one of
\* its first two options; past the questions: nothing or "a"
AnswerChoices(t, i) ==
    IF i <= Len(QuestionsOf(t))
        THEN {None, Some(QuestionsOf(t)[i].options[1]),
              Some(QuestionsOf(t)[i].options[2])}
        ELSE {None, Some("a")}

RECURSIVE AnswersOfLen(_, _)
AnswersOfLen(t, n) ==
    IF n = 0 THEN {<<>>}
    ELSE {Append(x, e) : x \in AnswersOfLen(t, n - 1), e \in AnswerChoices(t, n)}

AnswerLists(t) ==
    UNION {AnswersOfLen(t, n) : n \in 0 .. Len(QuestionsOf(t)) + 1}

EvalInit ==
    /\ subs = <<>>
    /\ today = 0
    /\ DashInit
    /\ GenIdle
    /\ JudgeIdle
    /\ AppIdle
    /\ listening_task \in {Some(t) : t \in EvalTasks}
    /\ user_answers = None
    /\ listening_score = None
    /\ feedback_lines = <<>>

\* score, feedback_lines = evaluate_listening_answers(task, user_answers)
EvaluateListening ==
    \E answers \in AnswerLists(listening_task[1]) :
        /\ user_answers = None
        /\ user_answers' = Some(answers)
        /\ listening_score' =
              Some(evaluate_listening_answers(listening_task[1], answers).score)
        /\ feedback_lines' =
              evaluate_listening_answers(listening_task[1], answers).feedback_lines
        /\ UNCHANGED <<listening_task, NotEval>>

EvalNext == EvaluateListening

SpecEval == EvalInit /\ [][EvalNext]_vars

----------------------------------------------------------------------------
(* Properties of the listening grader (under SpecEval).                     *)

Graded == user_answers # None

GradedQuestions == QuestionsOf(listening_task[1])

\* position i holds a submitted option and it is the question's answer
IsMatch(i) ==
    /\ i <= Len(user_answers[1])
    /\ user_answers[1][i] # None
    /\ user_answers[1][i][1] = GradedQuestions[i].answer

Matches == Cardinality({i \in 1 .. Len(GradedQuestions) : IsMatch(i)})

\* C5: evaluate_listening_answers calls no generator and, for a task with
\* n >= 1 questions and any answer list, returns score = matches / n * 100,
\* where a position matches when its submitted option is exactly the
\* question's answer and a missing or unanswered position never matches; for
\* n = 0 the score is 0.
C5_ListeningScore ==
    Graded =>
        LET n == Len(GradedQuestions)
            sc == listening_score[1]
        IN  /\ call = None
            /\ sc.den > 0
            /\ n >= 1 => sc.num * n = Matches * 100 * sc.den
            /\ n = 0 => sc.num = 0

\* C5 witness: three questions, two answers submitted of which the second is
\* empty, one match: the score is 100/3.
C5_Witness ==
    /\ Graded
    /\ Len(GradedQuestions) = 3
    /\ Len(user_answers[1]) = 2
    /\ user_answers[1][2] = None
    /\ Matches = 1
    /\ listening_score = Some([num |-> 100, den |-> 3])

\* the correction line of question i, with the given text before its number
ClaimedLine(prefix, i) ==
    prefix \o IntStr(i) \o ": Correct answer is '" \o GradedQuestions[i].answer
        \o "'. " \o Why(GradedQuestions[i])

\* remark, one correction line per question that is not a match, in question
\* order, and the tip exactly when the score is below 50
ClaimedFeedback(prefix) ==
    LET n     == Len(GradedQuestions)
        sc    == listening_score[1]
        wrong == SelectSeq([i \in 1 .. n |-> i], LAMBDA i : ~IsMatch(i))
        lines == [k \in 1 .. Len(wrong) |-> ClaimedLine(prefix, wrong[k])]
    IN  <<IF sc.num = 100 * sc.den THEN RemarkExcellent ELSE RemarkReview>>
            \o lines
            \o (IF sc.num < 50 * sc.den THEN <<TipLowerLevel>> ELSE <<>>)

\* three questions with one match: remark, two corrections, tip
ThreeQuestionsOneCorrect ==
    (Len(GradedQuestions) = 3 /\ Matches = 1) =>
        /\ Len(feedback_lines) = 4
        /\ feedback_lines[1] = RemarkReview
        /\ feedback_lines[4] = TipLowerLevel

\* C6 as stated: the feedback is the overall remark (congratulation when the
\* score is exactly 100, else the keyword remark), then one line
\* "Question <n>: Correct answer is '<answer>'. <why>" per incorrect or
\* unanswered question in question order, then the lower-level tip iff the
\* score is below 50; 3 questions with one correct give 2 corrections plus
\* remark and tip.
C6_Original ==
    Graded =>
        /\ feedback_lines = ClaimedFeedback("Question ")
        /\ ThreeQuestionsOneCorrect

\* C6 amended: the same, with correction lines that read
\* "Q<n>: Correct answer is '<answer>'. <why>".
C6_Feedback ==
    Graded =>
        /\ feedback_lines = ClaimedFeedback("Q")
        /\ ThreeQuestionsOneCorrect

\* C6 witness: answers a, none, b to questions with answers a, b, a: the
\* remark, the corrections of questions 2 and 3, and the tip.
C6_Witness ==
    /\ Graded
    /\ user_answers[1] = <<Some("a"), None, Some("b")>>
    /\ feedback_lines =
          <<RemarkReview,
            "Q2: Correct answer is 'b'. v",
            "Q3: Correct answer is 'a'. ",
            TipLowerLevel>>

----------------------------------------------------------------------------
(* Properties of the fallback listening bank (under SpecGen).               *)

\* the last call returned a fallback listening task
FallbackReturned == ListeningCalled /\ result.source = "fallback"

\* C11: two calls of fallback_listening_task with the same level return the
\* same title, passage, questions and fingerprint, and for each of the five
\* levels the task has exactly 3 questions with exactly 4 options each.
C11_FallbackDeterministic ==
    /\ (FallbackReturned /\ result.level \in Levels) =>
          /\ Len(result.questions) = 3
          /\ \A i \in 1 .. Len(result.questions) :
                Len(result.questions[i].options) = 4
    /\ (FallbackReturned /\ prev # None /\ prev.source = "fallback"
            /\ prev.level = result.level) =>
          /\ prev.title = result.title
          /\ prev.passage = result.passage
          /\ prev.questions = result.questions
          /\ prev.task_id = result.task_id

\* C11 witness: the fallback task of level C1 was returned twice.
C11_Witness ==
    /\ FallbackReturned
    /\ prev # None
    /\ prev.source = "fallback"
    /\ prev.level = "C1"
    /\ result.level = "C1"
    /\ Len(result.questions) = 3

----------------------------------------------------------------------------
(* generate_ai_feedback_writing and generate_ai_feedback_speaking.  A text  *)
(* is a sequence of tokens: word characters, whitespace, punctuation.  An   *)
(* exception is [type, repr] with repr a sequence of text pieces, so that    *)
(* "insufficient_quota" in repr(e) is membership of that piece.              *)

\* tokens that \w matches
WordTokens == {"w", "x", "7", "_"}

\* len(re.findall(r"\b\w+\b", text)): every match is one maximal run of word
\* characters, counted here by the position it starts at
WordCount(text) ==
    Cardinality({i \in 1 .. Len(text) :
                    /\ text[i] \in WordTokens
                    /\ (i = 1 \/ text[i - 1] \notin WordTokens)})

JNull == [t |-> "null"]

JList(items) == [t |-> "list", v |-> items]

Exc(type, pieces) ==
    [ok |-> FALSE, type |-> type, repr |-> <<type, "(">> \o pieces \o <<")">>]

Ok(value) == [ok |-> TRUE, value |-> value]

DigitTokens == {"0", "1", "2", "3", "4", "5", "6", "7", "8", "9"}

RECURSIVE DigitsValue(_, _)
\* the value of the first n tokens of a digit string
DigitsValue(tokens, n) ==
    IF n = 0 THEN 0
    ELSE 10 * DigitsValue(tokens, n - 1)
            + (CHOOSE k \in 0 .. 9 : Digits[k + 1] = tokens[n])

\* float(x) of a JSON value
PyFloat(x) ==
    IF x.t = "num" THEN Ok(x.v)
    ELSE IF x.t = "str"
        THEN LET body == Strip(x.v)
             IN  IF body # <<>> /\ \A i \in 1 .. Len(body) : body[i] \in DigitTokens
                     THEN Ok(DigitsValue(body, Len(body)))
                     ELSE Exc("ValueError",
                              <<"could not convert string to float: ">> \o x.v)
    ELSE Exc("TypeError", <<"float() argument must be a string or a real number">>)

\* str(x) of a JSON value
PyStr(x) ==
    IF x.t = "str" THEN Flat(x.v)
    ELSE IF x.t = "num"
        THEN (IF x.v < 0 THEN "-" \o IntStr(0 - x.v) ELSE IntStr(x.v))
    ELSE "None"

\* [str(x) for x in v]
StrList(x) ==
    IF x.t = "list" THEN Ok([i \in 1 .. Len(x.v) |-> PyStr(x.v[i])])
    ELSE IF x.t = "str" THEN Ok([i \in 1 .. Len(x.v) |-> x.v[i]])
    ELSE Exc("TypeError", <<"object is not iterable">>)

\* the try block of both functions: the call, json.loads, and the dict
\* {"score": float(data["score"]), "feedback": [str(x) for x in data["feedback"]]}
AssessmentTry(ai) ==
    IF ai.kind = "raise" THEN [ok |-> FALSE, type |-> ai.type, repr |-> ai.repr]
    ELSE IF ai.kind = "malformed"
        THEN Exc("JSONDecodeError", <<"Expecting value: line 1 column 1 (char 0)">>)
    ELSE IF "score" \notin DOMAIN ai.data THEN Exc("KeyError", <<"'score'">>)
    ELSE IF ~PyFloat(ai.data.score).ok THEN PyFloat(ai.data.score)
    ELSE IF "feedback" \notin DOMAIN ai.data THEN Exc("KeyError", <<"'feedback'">>)
    ELSE IF ~StrList(ai.data.feedback).ok THEN StrList(ai.data.feedback)
    ELSE Ok([score |-> PyFloat(ai.data.score).value,
             feedback |-> StrList(ai.data.feedback).value])

\* An except block that scores a failed call 0.
Degraded_ZeroScore(type) ==
    [score |-> 0,
     feedback |-> <<"AI evaluation failed temporarily.",
                    "Please try again later.",
                    "Debug: " \o type>>]

\* An except block that drops the debug line.
Degraded_NoDebugLine(type) ==
    [score |-> 55,
     feedback |-> <<"AI evaluation failed temporarily.",
                    "Please try again later.">>]

\* the dict both functions return from their except block
Degraded(type) ==
    [score |-> 55,
     feedback |-> <<"AI evaluation failed temporarily.",
                    "Please try again later.",
                    "Debug: " \o type>>]

\* A bonus that needs more than 80 words.
HeuristicScore_Over80(text) ==
    50 + (IF WordCount(text) > 80 THEN 10 ELSE 0)

\* score = 50 + (10 if len(words) >= 80 else 0)
HeuristicScore(text) ==
    50 + (IF WordCount(text) >= 80 THEN 10 ELSE 0)

generate_ai_feedback_writing(text, ai) ==
    IF ai.kind = "no_client"
        THEN [score |-> Min(100, HeuristicScore(text)),
              feedback |-> <<"AI service is not configured (missing OPENAI_API_KEY).",
                             "Fallback evaluation was used.",
                             "Set OPENAI_API_KEY and try again for full AI feedback.">>]
    ELSE IF AssessmentTry(ai).ok THEN AssessmentTry(ai).value
    ELSE Degraded(AssessmentTry(ai).type)

\* the dict returned when "insufficient_quota" in repr(e)
QuotaResult ==
    [score |-> 0,
     feedback |-> <<"AI speaking evaluation is unavailable because your OpenAI account has no remaining quota.",
                    "Fix: enable billing/credits, restart the app, then try again.",
                    "Debug: insufficient_quota">>]

\* A handler that does not look for the quota error.
generate_ai_feedback_speaking_NoQuotaCase(transcript, ai) ==
    IF ai.kind = "no_client"
        THEN [score |-> 0,
              feedback |-> <<"AI speaking feedback unavailable (missing OPENAI_API_KEY).",
                             "Enable OpenAI billing/credits to get transcription + speaking feedback.">>]
    ELSE IF AssessmentTry(ai).ok THEN AssessmentTry(ai).value
    ELSE Degraded(AssessmentTry(ai).type)

\* transcript only enters the prompt
generate_ai_feedback_speaking(transcript, ai) ==
    IF ai.kind = "no_client"
        THEN [score |-> 0,
              feedback |-> <<"AI speaking feedback unavailable (missing OPENAI_API_KEY).",
                             "Enable OpenAI billing/credits to get transcription + speaking feedback.">>]
    ELSE IF AssessmentTry(ai).ok THEN AssessmentTry(ai).value
    ELSE IF "insufficient_quota" \in Range(AssessmentTry(ai).repr) THEN QuotaResult
    ELSE Degraded(AssessmentTry(ai).type)

----------------------------------------------------------------------------
(* Specification of the evaluation strategies: one call of one of the three *)
(* strategies, on an input drawn from the sets below.                        *)

\* an essay of n one-letter words with sep between them
EssayOf(n, sep) ==
    LET period == 1 + Len(sep)
    IN  [i \in 1 .. (IF n = 0 THEN 0 ELSE n + (n - 1) * Len(sep)) |->
            IF (i - 1) % period = 0 THEN "w" ELSE sep[(i - 1) % period]]

\* essays of 0 .. MaxWords words, separated by a blank or by a comma and a
\* blank; one word of three characters; punctuation only
Essays ==
    {EssayOf(n, sep) : n \in 0 .. MaxWords, sep \in {<<" ">>, <<",", " ">>}}
    \cup {<<"w", "x", "7">>, <<",">>, <<"w", " ", "x", "_", "7", ",", "w">>}

\* the ways the call of a configured client fails before json.loads returns
AssessmentFailures ==
    { [kind |-> "raise", type |-> "APIConnectionError",
       repr |-> <<"APIConnectionError", "(", "'Connection error.'", ")">>],
      [kind |-> "raise", type |-> "RateLimitError",
       repr |-> <<"RateLimitError", "(", "Error code: 429 - ",
                  "insufficient_quota", ")">>],
      [kind |-> "raise", type |-> "RateLimitError",
       repr |-> <<"RateLimitError", "(", "Error code: 429 - ",
                  "rate_limit_exceeded", ")">>],
      [kind |-> "malformed"] }

FiveLines == JList(<<JStr(<<"a">>), JStr(<<"b">>), JStr(<<"c">>), JStr(<<"d">>),
                     JStr(<<"e">>)>>)

AIScores ==
    {JNum(72), JNum(0), JNum(100), JNum(150), JNum(0 - 5), JStr(<<"8", "0">>),
     JStr(<<"h", "i">>), JNull}

AIFeedbacks ==
    {FiveLines, JList(<<JStr(<<"a">>), JNum(2)>>), JList(<<>>), JNum(3),
     JStr(<<"o", "k">>), JNull}

\* the documents json.loads gives for an assessment response
AssessmentDatas ==
    {[score |-> sc, feedback |-> fb] : sc \in AIScores, fb \in AIFeedbacks}
    \cup {[score |-> JNum(72)], [feedback |-> FiveLines]}

AssessmentAI ==
    AssessmentFailures \cup {[kind |-> "json", data |-> x] : x \in AssessmentDatas}

JudgeInit ==
    /\ subs = <<>>
    /\ today = 0
    /\ DashInit
    /\ GenIdle
    /\ EvalIdle
    /\ JudgeIdle
    /\ AppIdle

\* ai = generate_ai_feedback_writing(essay) with no OPENAI_API_KEY
JudgeWritingHeuristic ==
    \E text \in Essays :
        /\ judge = None
        /\ judge' = [fn |-> "generate_ai_feedback_writing", text |-> text,
                     ai |-> NoClient]
        /\ evaluation' = generate_ai_feedback_writing(text, NoClient)
        /\ UNCHANGED NotJudge

\* ai = generate_ai_feedback_writing(essay) with a client
JudgeWritingAI ==
    \E text \in {EssayOf(3, <<" ">>)}, ai \in AssessmentAI :
        /\ judge = None
        /\ judge' = [fn |-> "generate_ai_feedback_writing", text |-> text,
                     ai |-> ai]
        /\ evaluation' = generate_ai_feedback_writing(text, ai)
        /\ UNCHANGED NotJudge

\* ai = generate_ai_feedback_speaking(transcript)
JudgeSpeaking ==
    \E transcript \in {"hello"}, ai \in {NoClient} \cup AssessmentAI :
        /\ judge = None
        /\ judge' = [fn |-> "generate_ai_feedback_speaking",
                     transcript |-> transcript, ai |-> ai]
        /\ evaluation' = generate_ai_feedback_speaking(transcript, ai)
        /\ UNCHANGED NotJudge

\* score, feedback_lines = evaluate_listening_answers(task, user_answers)
JudgeListening ==
    \E t \in EvalTasks :
        \E answers \in AnswerLists(t) :
            /\ judge = None
            /\ judge' = [fn |-> "evaluate_listening_answers", task |-> t,
                         user_answers |-> answers]
            /\ evaluation' = evaluate_listening_answers(t, answers)
            /\ UNCHANGED NotJudge

JudgeNext ==
    \/ JudgeWritingHeuristic
    \/ JudgeWritingAI
    \/ JudgeSpeaking
    \/ JudgeListening

SpecJudge == JudgeInit /\ [][JudgeNext]_vars

----------------------------------------------------------------------------
(* Properties of the evaluation strategies (under SpecJudge).               *)

WritingJudged == judge # None /\ judge.fn = "generate_ai_feedback_writing"

SpeakingJudged == judge # None /\ judge.fn = "generate_ai_feedback_speaking"

ListeningJudged == judge # None /\ judge.fn = "evaluate_listening_answers"

\* the response carries a score float() accepts and a feedback that can be
\* iterated
AssessmentReadable(data) ==
    IF "score" \notin DOMAIN data THEN FALSE
    ELSE IF "feedback" \notin DOMAIN data THEN FALSE
    ELSE /\ data.score.t = "num" \/ data.score = JStr(<<"8", "0">>)
         /\ data.feedback.t \in {"list", "str"}

\* the call of a configured client failed
JudgeCallFailed(ai) ==
    IF ai.kind \in {"raise", "malformed"} THEN TRUE
    ELSE IF ai.kind = "json" THEN ~AssessmentReadable(ai.data)
    ELSE FALSE

\* the quota error of the API
IsQuotaError(ai) ==
    IF ai.kind = "raise" THEN "insufficient_quota" \in Range(ai.repr) ELSE FALSE

ErrorCategories ==
    {"APIConnectionError", "RateLimitError", "JSONDecodeError", "KeyError",
     "ValueError", "TypeError"}

\* the result has the two keys: the call returned
Returned == DOMAIN evaluation = {"score", "feedback"}

\* C13: generate_ai_feedback_writing always returns; with no credentials the
\* score is 50, plus 10 for a text of at least 80 words, at most 100, and the
\* feedback says a fallback evaluation was used; with credentials and a
\* failing call the score is 55 and the feedback has exactly three lines,
\* the last naming the error category.
C13_WritingFeedback ==
    WritingJudged =>
        /\ Returned
        /\ judge.ai = NoClient =>
              /\ \A n \in 0 .. MaxWords, sep \in {<<" ">>, <<",", " ">>} :
                    judge.text = EssayOf(n, sep) =>
                        evaluation.score = IF n >= 80 THEN 60 ELSE 50
              /\ evaluation.score \in {50, 60}
              /\ "Fallback evaluation was used." \in Range(evaluation.feedback)
        /\ JudgeCallFailed(judge.ai) =>
              /\ evaluation.score = 55
              /\ Len(evaluation.feedback) = 3
              /\ evaluation.feedback[3] \in {"Debug: " \o c : c \in ErrorCategories}
              /\ judge.ai.kind = "raise" =>
                    evaluation.feedback[3] = "Debug: " \o judge.ai.type
              /\ judge.ai.kind = "malformed" =>
                    evaluation.feedback[3] = "Debug: JSONDecodeError"

\* C13 witness: 80 words and no credentials score 60.
C13_Witness ==
    /\ WritingJudged
    /\ judge.ai = NoClient
    /\ judge.text = EssayOf(80, <<" ">>)
    /\ evaluation.score = 60

\* C14: generate_ai_feedback_speaking always returns; no credentials give
\* score 0 with an explanatory message; a failed call recognised as quota
\* exhaustion gives score 0 with a message naming it; every other failed call
\* gives the degraded result with score 55.
C14_SpeakingFeedback ==
    SpeakingJudged =>
        /\ Returned
        /\ judge.ai = NoClient =>
              /\ evaluation.score = 0
              /\ evaluation.feedback[1] =
                    "AI speaking feedback unavailable (missing OPENAI_API_KEY)."
        /\ IsQuotaError(judge.ai) =>
              /\ evaluation.score = 0
              /\ "Debug: insufficient_quota" \in Range(evaluation.feedback)
        /\ (JudgeCallFailed(judge.ai) /\ ~IsQuotaError(judge.ai)) =>
              /\ evaluation.score = 55
              /\ Len(evaluation.feedback) = 3
              /\ evaluation.feedback[1] = "AI evaluation failed temporarily."

\* C14 witness: the quota error gave the zero score that names it.
C14_Witness ==
    /\ SpeakingJudged
    /\ IsQuotaError(judge.ai)
    /\ evaluation = QuotaResult

\* the score of the result is within [0, 100]
ScoreInRange ==
    IF ListeningJudged
        THEN /\ 0 <= evaluation.score.num
             /\ evaluation.score.num <= 100 * evaluation.score.den
        ELSE 0 <= evaluation.score /\ evaluation.score <= 100

FeedbackOf ==
    IF ListeningJudged THEN evaluation.feedback_lines ELSE evaluation.feedback

\* C15 as stated: every result of the three strategies, on every path, has a
\* score within [0, 100] and a feedback list of between 5 and 20 strings.
C15_Original ==
    judge # None =>
        /\ ScoreInRange
        /\ Len(FeedbackOf) >= 5
        /\ Len(FeedbackOf) <= 20

\* C15 amended: a result that is not taken from an AI response has a score
\* within [0, 100] and a feedback list of 3 lines (writing without
\* credentials, a failed call), 2 lines (speaking without credentials) or 1
\* to n + 2 lines (listening with n questions); a result taken from an AI
\* response has the score and as many feedback strings as the response.
C15_EvaluationResult ==
    judge # None =>
        IF ListeningJudged
            THEN /\ ScoreInRange
                 /\ Len(FeedbackOf) >= 1
                 /\ Len(FeedbackOf) <= Len(QuestionsOf(judge.task)) + 2
        ELSE IF judge.ai = NoClient
            THEN /\ ScoreInRange
                 /\ Len(FeedbackOf) = IF WritingJudged THEN 3 ELSE 2
        ELSE IF JudgeCallFailed(judge.ai)
            THEN /\ ScoreInRange
                 /\ Len(FeedbackOf) = 3
        ELSE /\ judge.ai.data.score.t = "num" =>
                    evaluation.score = judge.ai.data.score.v
             /\ Len(FeedbackOf) = Len(judge.ai.data.feedback.v)

\* C15 witness: a failed writing call gave score 55 and three lines.
C15_Witness ==
    /\ WritingJudged
    /\ judge.ai.kind = "malformed"
    /\ evaluation.score = 55
    /\ Len(evaluation.feedback) = 3

----------------------------------------------------------------------------
(* The routes /writing, /speaking, /listening, /stats and /dashboard: what  *)
(* the handlers compute.  A request is handled in one step.  The session of *)
(* a user is the Flask session of that user's browser.                       *)

\* session[key] = value
SessionSet_Global(sess, u, key, value) ==
    [v \in DOMAIN sess |-> [sess[v] EXCEPT ![key] = Some(value)]]

SessionSet(sess, u, key, value) == [sess EXCEPT ![u][key] = Some(value)]

\* A pop that leaves the value in the session.
SessionPop_Keep(sess, u, key) == sess

\* session.pop(key, None)
SessionPop(sess, u, key) == [sess EXCEPT ![u][key] = None]

\* A save that overwrites the user's last row of the same type.
AddCommit_Upsert(rows, row) ==
    LET same == {i \in 1 .. Len(rows) :
                    rows[i].user_id = row.user_id /\ rows[i].type = row.type}
    IN  IF same = {} THEN Append(rows, row)
        ELSE [rows EXCEPT ![CHOOSE i \in same : \A j \in same : j <= i] = row]

\* db.session.add(submission); db.session.commit()
AddCommit(rows, row) == Append(rows, row)

\* Submission(user_id=, type=, content=, ai_score=, ai_feedback=)
SubmissionRow(u, t, content, sc, fb) ==
    [user_id |-> u, type |-> t, content |-> content, ai_score |-> Some(sc),
     ai_feedback |-> fb, created_at |-> today]

RECURSIVE Join(_, _)
\* sep.join(lines)
Join(lines, sep) ==
    IF lines = <<>> THEN ""
    ELSE IF Len(lines) = 1 THEN lines[1]
    ELSE lines[1] \o sep \o Join(Tail(lines), sep)

\* str.upper() on the characters level codes are written with
UpperChar(c) ==
    CASE c = "a" -> "A"
      [] c = "b" -> "B"
      [] c = "c" -> "C"
      [] c = "z" -> "Z"
      [] OTHER -> c

Upper(tokens) == [i \in 1 .. Len(tokens) |-> UpperChar(tokens[i])]

\* A level taken from the request without the check against the five labels.
GetLevel_NoDefault(arg) ==
    LET raw == IF arg = None \/ arg = Some(<<>>) THEN <<"B", "1">> ELSE arg[1]
    IN  Flat(Strip(Upper(raw)))

\* listening GET: level = (request.args.get("level") or "B1").upper().strip(),
\* replaced by "B1" when it is none of the five
GetLevel(arg) ==
    LET raw == IF arg = None \/ arg = Some(<<>>) THEN <<"B", "1">> ELSE arg[1]
        lvl == Flat(Strip(Upper(raw)))
    IN  IF lvl \in Levels THEN lvl ELSE "B1"

\* listening POST:
\* level = (request.form.get("level") or task.get("level") or "B1").upper().strip()
\* (the level of a task the route stored is one of the five, which upper and
\* strip leave as it is)
PostLevel(arg, t) ==
    IF arg = None \/ arg = Some(<<>>)
        THEN (IF "level" \in DOMAIN t THEN t.level ELSE "B1")
        ELSE Flat(Strip(Upper(arg[1])))

\* transcribe_audio_file: None without a client or when the call raises,
\* else the stripped text
transcribe_audio_file(stt) ==
    IF stt.kind \in {"no_client", "raise"} THEN None
    ELSE Some(Flat(Strip(stt.text)))

TranscriptionFailedFeedback ==
    "Speaking feedback unavailable because transcription failed.\n"
        \o "If you see 'insufficient_quota' in the terminal, enable OpenAI billing/credits."

\* An evaluation that is attempted whatever the transcript.
SpeakingAssess_AlwaysEvaluate(transcript, ai) ==
    LET res == generate_ai_feedback_speaking(
                   IF transcript = None THEN "" ELSE transcript[1], ai)
    IN  [ai_score |-> res.score, ai_feedback |-> Join(res.feedback, "\n"),
         evaluator_calls |-> 1]

\* speaking(): if transcript: ... else: ...
SpeakingAssess(transcript, ai) ==
    IF transcript # None /\ transcript # Some("")
        THEN LET res == generate_ai_feedback_speaking(transcript[1], ai)
             IN  [ai_score |-> res.score,
                  ai_feedback |-> Join(res.feedback, "\n"),
                  evaluator_calls |-> 1]
        ELSE [ai_score |-> 0, ai_feedback |-> TranscriptionFailedFeedback,
              evaluator_calls |-> 0]

\* counts of stats(): the user's rows per type
StatsCounts(u) ==
    [t \in Types |->
        Cardinality({i \in 1 .. Len(subs) :
                        subs[i].user_id = u /\ subs[i].type = t})]

----------------------------------------------------------------------------
(* Specifications of the application, each until the history holds          *)
(* MaxRecords submissions or MaxIssued tasks were generated: SpecApp follows *)
(* the requests of user 1 to every route, on a history that may hold an      *)
(* essay of user 2; SpecSession follows the requests of both users, in any   *)
(* order, to the routes that use the session.                                *)

\* essays posted: empty, blank, one word with blanks around
AppEssays == {<<>>, <<" ", "\n">>, <<" ", "w", " ">>}

GoodAssessment == [kind |-> "json", data |-> [score |-> JNum(72), feedback |-> FiveLines]]

AppWritingAI == {NoClient}

\* request.files.get("audio"): no file, a file without a name, a recording
AudioFiles == {None, Some(""), Some("a.webm")}

\* what the transcription service does: no client, the call raises, a text
STTs ==
    { [kind |-> "no_client"], [kind |-> "raise"],
      [kind |-> "text", text |-> <<"h", "i", " ">>] }

\* the speaking evaluation of the same process: without a client when the
\* transcription had none
AppSpeakingAI(stt) ==
    IF stt.kind = "no_client" THEN {NoClient} ELSE {GoodAssessment}

\* the generators run without a client, and random.choice draws the first
\* topic
AppTopicAI == {NoClient}

AppTopicChoices == {1}

AppListeningAI == {NoClient}

\* request.args.get("level")
LevelArgs == {None, Some(<<"a", "2", " ">>), Some(<<"Z", "Z">>)}

\* request.form.get("level")
FormLevels == {None, Some(<<"Z", "Z">>)}

\* request.form.get(f"q{i}") for the questions of the task: the first and
\* the third question answered, the third wrongly
FormAnswers(t) ==
    LET n == Len(QuestionsOf(t))
    IN  { [i \in 1 .. n |-> IF i = 2 THEN None
                            ELSE Some(QuestionsOf(t)[i].options[(i \div 3) + 1])] }

\* what is recorded of every request
Req(route, method, u) ==
    [route |-> route, method |-> method, user |-> u, status |-> "render",
     invalid |-> FALSE, level_arg |-> None, flash |-> None,
     stt |-> None, transcript |-> None, transcribe_calls |-> 0,
     evaluator_calls |-> 0,
     grade_calls |-> 0, graded |-> None, inserted |-> FALSE,
     new |-> FALSE, generator_calls |-> 0, audio |-> None]

\* an essay user 2 submitted earlier, evaluated without credentials
EarlierRow ==
    [user_id |-> 2, type |-> "WRITING", content |-> "w w", ai_score |-> Some(50),
     ai_feedback |-> Join(generate_ai_feedback_writing(<<"w", " ", "w">>, NoClient).feedback, "\n"),
     created_at |-> 0]

AppInit ==
    /\ subs \in {<<>>, <<EarlierRow>>}
    /\ today = 0
    /\ DashInit
    /\ GenIdle
    /\ EvalIdle
    /\ JudgeIdle
    /\ AppIdle

\* GET /writing
WritingGet(u) ==
    /\ request' = Req("writing", "GET", u)
    /\ UNCHANGED <<dbVars, session, issued, pending_ids, recorded, NotApp>>

\* POST /writing
WritingPost(u) ==
    \E form \in AppEssays, ai \in AppWritingAI :
        LET essay == Strip(form)
            res   == generate_ai_feedback_writing(essay, ai)
        IN  IF essay = <<>>
                THEN /\ request' = [Req("writing", "POST", u) EXCEPT
                            !.invalid = TRUE,
                            !.flash = Some("Please write something."),
                            !.status = "redirect writing"]
                     /\ UNCHANGED <<dbVars, session, issued, pending_ids,
                                    recorded, NotApp>>
                ELSE /\ Len(subs) < MaxRecords
                     /\ subs' = AddCommit(subs,
                            SubmissionRow(u, "WRITING", Flat(essay), res.score,
                                          Join(res.feedback, "\n")))
                     /\ request' = [Req("writing", "POST", u) EXCEPT
                            !.evaluator_calls = 1,
                            !.inserted = TRUE,
                            !.status = "redirect stats"]
                     /\ UNCHANGED <<today, session, issued, pending_ids,
                                    recorded, NotApp>>

\* A view that generates no topic when the session holds none.
SpeakingTopicStep_NoGenerate(u, pop, ai, choice) ==
    LET s1 == IF pop THEN SessionPop(session, u, "speaking_topic") ELSE session
    IN  [ generated |-> FALSE,
          topic |-> IF s1[u].speaking_topic = None THEN None
                    ELSE s1[u].speaking_topic[1],
          sess |-> s1,
          ids |-> pending_ids ]

\* speaking(), the lines before the POST branch: the pop of GET ?new=1, and
\* the topic generated and stored when the session holds none.  sess and
\* ids are the session and the instance numbers after them.
SpeakingTopicStep(u, pop, ai, choice) ==
    LET s1   == IF pop THEN SessionPop(session, u, "speaking_topic") ELSE session
        need == s1[u].speaking_topic = None
        topic == IF need THEN generate_speaking_topic("B1", ai, choice)
                 ELSE s1[u].speaking_topic[1]
    IN  [ generated |-> need,
          topic |-> topic,
          sess |-> IF need THEN SessionSet(s1, u, "speaking_topic", topic) ELSE s1,
          ids |-> IF need
                     THEN [pending_ids EXCEPT ![u].speaking_topic = issued + 1]
                     ELSE pending_ids ]

\* GET /speaking and GET /speaking?new=1
SpeakingGet(u) ==
    \E new \in BOOLEAN, ai \in AppTopicAI, choice \in AppTopicChoices :
        LET step == SpeakingTopicStep(u, new, ai, choice)
        IN  /\ step.generated => issued < MaxIssued
            /\ session' = step.sess
            /\ pending_ids' = step.ids
            /\ issued' = IF step.generated THEN issued + 1 ELSE issued
            /\ request' = [Req("speaking", "GET", u) EXCEPT
                   !.new = new,
                   !.generator_calls = IF step.generated THEN 1 ELSE 0]
            /\ UNCHANGED <<dbVars, recorded, NotApp>>

\* POST /speaking
SpeakingPost(u) ==
    \E audio \in AudioFiles, stt \in STTs, tai \in AppTopicAI,
       choice \in AppTopicChoices :
        \E ai \in AppSpeakingAI(stt) :
            LET step       == SpeakingTopicStep(u, FALSE, tai, choice)
                filename   == "speaking_" \o IntStr(u) \o "_" \o UtcNowStamp
                                  \o "_" \o audio[1]
                transcript == transcribe_audio_file(stt)
                res        == SpeakingAssess(transcript, ai)
                payload    == [topic |-> step.topic,
                               audio_path |-> "uploads/" \o filename,
                               audio_url |-> "/uploads/" \o filename,
                               audio_mimetype |-> "audio/webm",
                               notes |-> "",
                               transcript |-> transcript]
            IN  /\ step.generated => issued < MaxIssued
                /\ issued' = IF step.generated THEN issued + 1 ELSE issued
                /\ IF audio = None \/ audio = Some("")
                       THEN /\ session' = step.sess
                            /\ pending_ids' = step.ids
                            /\ request' = [Req("speaking", "POST", u) EXCEPT
                                   !.audio = audio,
                                   !.generator_calls =
                                       IF step.generated THEN 1 ELSE 0,
                                   !.invalid = TRUE,
                                   !.flash = Some("Please record and upload an audio answer."),
                                   !.status = "redirect speaking"]
                            /\ UNCHANGED <<dbVars, recorded, NotApp>>
                       ELSE /\ Len(subs) < MaxRecords
                            /\ subs' = AddCommit(subs,
                                   SubmissionRow(u, "SPEAKING", [json |-> payload],
                                                 res.ai_score, res.ai_feedback))
                            /\ session' = SessionPop(step.sess, u, "speaking_topic")
                            /\ pending_ids' =
                                   IF SessionPop(step.sess, u, "speaking_topic")[u].speaking_topic = None
                                       THEN [step.ids EXCEPT ![u].speaking_topic = 0]
                                       ELSE step.ids
                            /\ recorded' = Append(recorded, step.ids[u].speaking_topic)
                            /\ request' = [Req("speaking", "POST", u) EXCEPT
                                   !.audio = audio,
                                   !.generator_calls =
                                       IF step.generated THEN 1 ELSE 0,
                                   !.stt = Some(stt.kind),
                                   !.transcript = transcript,
                                   !.transcribe_calls = 1,
                                   !.evaluator_calls = res.evaluator_calls,
                                   !.graded = Some(step.topic),
                                   !.inserted = TRUE,
                                   !.status = "redirect stats"]
                            /\ UNCHANGED <<today, NotApp>>

\* A view that generates a task on every GET.
ListeningGet_AlwaysRegenerate(u) ==
    \E arg \in LevelArgs, new \in BOOLEAN, ai \in AppListeningAI :
        LET lvl  == GetLevel(arg)
            s1   == IF new THEN SessionPop(session, u, "listening_task") ELSE session
            t    == generate_listening_task(lvl, ai, "ok")
        IN  /\ issued < MaxIssued
            /\ session' = SessionSet(s1, u, "listening_task", t)
            /\ pending_ids' = [pending_ids EXCEPT ![u].listening_task = issued + 1]
            /\ issued' = issued + 1
            /\ request' = [Req("listening", "GET", u) EXCEPT
                   !.level_arg = arg,
                   !.new = new,
                   !.generator_calls = 1]
            /\ UNCHANGED <<dbVars, recorded, NotApp>>

\* GET /listening
ListeningGet(u) ==
    \E arg \in LevelArgs, new \in BOOLEAN, ai \in AppListeningAI :
        LET lvl  == GetLevel(arg)
            s1   == IF new THEN SessionPop(session, u, "listening_task") ELSE session
            need == IF s1[u].listening_task = None THEN TRUE
                    ELSE s1[u].listening_task[1].level # lvl
            t    == generate_listening_task(lvl, ai, "ok")
        IN  /\ need => issued < MaxIssued
            /\ session' = IF need THEN SessionSet(s1, u, "listening_task", t) ELSE s1
            /\ pending_ids' =
                   IF need THEN [pending_ids EXCEPT ![u].listening_task = issued + 1]
                   ELSE pending_ids
            /\ issued' = IF need THEN issued + 1 ELSE issued
            /\ request' = [Req("listening", "GET", u) EXCEPT
                   !.level_arg = arg,
                   !.new = new,
                   !.generator_calls = IF need THEN 1 ELSE 0]
            /\ UNCHANGED <<dbVars, recorded, NotApp>>

\* A handler that stores a default task when the session holds none.
ListeningPostNoTask_StoresDefault(u) ==
    \E arg \in FormLevels :
        /\ session[u].listening_task = None
        /\ session' = SessionSet(session, u, "listening_task",
                                 fallback_listening_task("B1"))
        /\ request' = [Req("listening", "POST", u) EXCEPT
               !.level_arg = arg,
               !.status = "redirect listening"]
        /\ UNCHANGED <<dbVars, issued, pending_ids, recorded, NotApp>>

\* POST /listening without a task in the session
ListeningPostNoTask(u) ==
    \E arg \in FormLevels :
        /\ session[u].listening_task = None
        /\ request' = [Req("listening", "POST", u) EXCEPT
               !.level_arg = arg,
               !.flash = Some("No listening task found. Generate a new one first."),
               !.status = "redirect listening"]
        /\ UNCHANGED <<dbVars, session, issued, pending_ids, recorded, NotApp>>

\* POST /listening with a task in the session
ListeningPost(u) ==
    /\ session[u].listening_task # None
    /\ Len(subs) < MaxRecords
    /\ \E arg \in FormLevels :
        \E answers \in FormAnswers(session[u].listening_task[1]) :
            LET t       == session[u].listening_task[1]
                lvl     == PostLevel(arg, t)
                res     == evaluate_listening_answers(t, answers)
                payload == [task_id |-> t.task_id, level |-> lvl,
                            title |-> t.title, instructions |-> t.instructions,
                            passage |-> t.passage, questions |-> t.questions,
                            audio_url |-> t.audio_url,
                            audio_mimetype |-> t.audio_mimetype,
                            audio_path |-> t.audio_path,
                            user_answers |-> answers, score |-> res.score,
                            source |-> t.source]
            IN  /\ subs' = AddCommit(subs,
                       SubmissionRow(u, "LISTENING", [json |-> payload],
                                     res.score, Join(res.feedback_lines, "\n")))
                /\ session' = SessionPop(session, u, "listening_task")
                /\ pending_ids' =
                       IF SessionPop(session, u, "listening_task")[u].listening_task = None
                           THEN [pending_ids EXCEPT ![u].listening_task = 0]
                           ELSE pending_ids
                /\ recorded' = Append(recorded, pending_ids[u].listening_task)
                /\ request' = [Req("listening", "POST", u) EXCEPT
                       !.level_arg = arg,
                       !.grade_calls = 1,
                       !.graded = Some(t),
                       !.inserted = TRUE,
                       !.status = "redirect stats"]
                /\ UNCHANGED <<today, issued, NotApp>>

\* GET /stats: the user's rows are read and counted
StatsGet(u) ==
    /\ request' = [Req("stats", "GET", u) EXCEPT !.graded = Some(StatsCounts(u))]
    /\ UNCHANGED <<dbVars, session, issued, pending_ids, recorded, NotApp>>

\* GET /dashboard: the user's scored rows are read
DashboardGet(u) ==
    /\ request' = [Req("dashboard", "GET", u) EXCEPT
           !.graded = Some(Len(RecentQuery(u)))]
    /\ UNCHANGED <<dbVars, session, issued, pending_ids, recorded, NotApp>>

AppNext ==
    \E u \in {1} :
        \/ WritingGet(u)
        \/ WritingPost(u)
        \/ SpeakingGet(u)
        \/ SpeakingPost(u)
        \/ ListeningGet(u)
        \/ ListeningPostNoTask(u)
        \/ ListeningPost(u)
        \/ StatsGet(u)
        \/ DashboardGet(u)

SpecApp == AppInit /\ [][AppNext]_vars

SessionInit ==
    /\ subs = <<>>
    /\ today = 0
    /\ DashInit
    /\ GenIdle
    /\ EvalIdle
    /\ JudgeIdle
    /\ AppIdle

SessionNext ==
    \E u \in Users :
        \/ SpeakingGet(u)
        \/ SpeakingPost(u)
        \/ ListeningGet(u)
        \/ ListeningPostNoTask(u)
        \/ ListeningPost(u)

SpecSession == SessionInit /\ [][SessionNext]_vars

----------------------------------------------------------------------------
(* Properties of the routes.                                                *)

\* the last request persisted a submission; LastRow is that submission
Submitted == request # None /\ request.inserted

LastRow == subs[Len(subs)]

\* C12 (SpecSession): when transcription is unavailable in a speaking submit
\* (no credentials or a failed call give no transcript, not an error), the
\* speaking evaluator is not called, transcription was attempted once, and
\* the persisted submission has score 0 and the feedback that says
\* transcription failed and hints at quota.
C12_TranscriptionUnavailable ==
    (Submitted /\ request.route = "speaking"
        /\ request.stt \in {Some("no_client"), Some("raise")}) =>
            /\ request.transcript = None
            /\ request.evaluator_calls = 0
            /\ request.transcribe_calls = 1
            /\ LastRow.type = "SPEAKING"
            /\ LastRow.user_id = request.user
            /\ LastRow.ai_score = Some(0)
            /\ LastRow.ai_feedback =
                  "Speaking feedback unavailable because transcription failed.\n"
                  \o "If you see 'insufficient_quota' in the terminal, enable OpenAI billing/credits."

\* C12 witness: a speaking submit whose transcription call raised was
\* persisted with score 0.
C12_Witness ==
    /\ Submitted
    /\ request.route = "speaking"
    /\ request.stt = Some("raise")
    /\ request.evaluator_calls = 0
    /\ LastRow.ai_score = Some(0)

\* C16 (SpecApp): no request changes or removes a submission that is in the
\* history: every row stays at its place, with every field as it was.
C16_AppendOnly ==
    [][/\ Len(subs') >= Len(subs)
       /\ \A i \in 1 .. Len(subs) : subs'[i] = subs[i]]_vars

\* C16 witness: user 1 persisted a submission after the essay of user 2,
\* which is still the first row.
C16_Witness ==
    /\ Submitted
    /\ Len(subs) = 2
    /\ subs[1] = EarlierRow
    /\ subs[2].user_id = 1

\* the request whose handling led to the primed state carried input that
\* fails validation: an empty essay, no audio, a level code that is none of
\* the five
InvalidInput(r) ==
    \/ r.invalid
    \/ r.route = "listening" /\ r.level_arg = Some(<<"Z", "Z">>)

\* C17 (SpecApp): a request whose input fails validation runs no evaluation
\* and leaves the submission history as it was.
C17_InvalidInputRejected ==
    [][InvalidInput(request') =>
          /\ subs' = subs
          /\ request'.evaluator_calls = 0
          /\ request'.grade_calls = 0]_vars

\* C18 (SpecSession): a listening submit made when the session holds no task
\* grades nothing, persists nothing, leaves session and history unchanged
\* and redirects to the listening page; a listening submit that grades,
\* grades the task pending in the session of the user who submits.
C18_NoPendingTask ==
    [][(request'.route = "listening" /\ request'.method = "POST") =>
          IF session[request'.user].listening_task = None
              THEN /\ request'.grade_calls = 0
                   /\ request'.graded = None
                   /\ ~request'.inserted
                   /\ subs' = subs
                   /\ session' = session
                   /\ request'.status = "redirect listening"
              ELSE /\ request'.grade_calls = 1
                   /\ request'.graded = session[request'.user].listening_task]_vars

\* C18 witness: user 1 submitted answers with no task in the session while
\* user 2 had one pending, and was redirected.
C18_Witness ==
    /\ request # None
    /\ request.route = "listening"
    /\ request.method = "POST"
    /\ request.user = 1
    /\ request.status = "redirect listening"
    /\ session[1].listening_task = None
    /\ session[2].listening_task # None
    /\ subs = <<>>

\* C19 (SpecSession): a request of one user leaves the pending task and topic
\* of every other user's session as they were, and a submission is recorded
\* under the submitting user's id for that user's own pending task or topic.
C19_SessionScoped ==
    [][LET u == request'.user
       IN  /\ \A v \in Users \ {u} : session'[v] = session[v]
           /\ request'.inserted =>
                 /\ subs'[Len(subs')].user_id = u
                 /\ request'.route = "listening" =>
                       /\ session[u].listening_task # None
                       /\ subs'[Len(subs')].content.json.task_id
                              = session[u].listening_task[1].task_id
                       /\ subs'[Len(subs')].content.json.level
                              \in {session[u].listening_task[1].level, "ZZ"}
                 /\ (request'.route = "speaking"
                        /\ session[u].speaking_topic # None) =>
                       subs'[Len(subs')].content.json.topic
                              = session[u].speaking_topic[1]]_vars

\* C19 witness: user 2 submitted the A2 task while the B1 task of user 1
\* stayed pending.
C19_Witness ==
    /\ Submitted
    /\ request.user = 2
    /\ request.route = "listening"
    /\ LastRow.content.json.title = BankA2.title
    /\ session[1].listening_task # None
    /\ session[1].listening_task[1].level = "B1"

\* no instance was recorded twice
RecordedOnce(r) == \A i, j \in 1 .. Len(r) : r[i] = r[j] => i = j

\* C20 (SpecSession): a session holds at most one pending listening task and
\* one pending speaking topic; after a listening or speaking submit was
\* persisted the session no longer holds that task; no generated instance
\* has two submissions; a pending task changes only when its user answers
\* it or has it regenerated.
C20_OnePendingTask ==
    [][/\ \A u \in Users :
            /\ Len(session'[u].listening_task) <= 1
            /\ Len(session'[u].speaking_topic) <= 1
       /\ request'.inserted /\ request'.route = "listening" =>
             session'[request'.user].listening_task = None
       /\ request'.inserted /\ request'.route = "speaking" =>
             session'[request'.user].speaking_topic = None
       /\ RecordedOnce(recorded')
       /\ \A u \in Users :
            /\ (session[u].listening_task # None
                    /\ pending_ids'[u].listening_task # pending_ids[u].listening_task) =>
                  /\ request'.user = u
                  /\ request'.route = "listening"
                  /\ request'.inserted \/ request'.method = "GET"
            /\ (session[u].speaking_topic # None
                    /\ pending_ids'[u].speaking_topic # pending_ids[u].speaking_topic) =>
                  /\ request'.user = u
                  /\ request'.route = "speaking"
                  /\ request'.inserted \/ request'.method = "GET"]_vars

\* C20 witness: two instances were generated and each has one submission;
\* the session of the user who submitted last holds nothing.
C20_Witness ==
    /\ Submitted
    /\ Len(recorded) = 2
    /\ recorded[1] # recorded[2]
    /\ session[request.user].listening_task = None
    /\ session[request.user].speaking_topic = None


\* the level of the query string is missing, or is none of the five labels
\* once upper-cased and stripped
LevelMissingOrInvalid(arg) ==
    IF arg = None THEN TRUE
    ELSE IF arg = Some(<<>>) THEN TRUE
    ELSE Flat(Strip(Upper(arg[1]))) \notin Levels

\* the last request was a GET of the listening view
ListeningShown ==
    /\ request # None
    /\ request.route = "listening"
    /\ request.method = "GET"

\* C21 (SpecSession): the level of every listening task the view generated
\* is one of A2, B1, B2, C1, C2; after a GET whose level is missing or none
\* of the five, the user's task has level B1 and the title, passage and
\* questions of the B1 entry of the bank.
C21_LevelNormalized ==
    /\ \A u \in Users :
          session[u].listening_task # None =>
              session[u].listening_task[1].level \in Levels
    /\ (ListeningShown /\ LevelMissingOrInvalid(request.level_arg)) =>
          /\ session[request.user].listening_task # None
          /\ session[request.user].listening_task[1].level = "B1"
          /\ session[request.user].listening_task[1].title = BankB1.title
          /\ session[request.user].listening_task[1].passage = BankB1.passage
          /\ session[request.user].listening_task[1].questions = BankB1.questions

\* C21 witness: a task was generated for a GET that asked for level ZZ.
C21_Witness ==
    /\ ListeningShown
    /\ request.level_arg = Some(<<"Z", "Z">>)
    /\ request.generator_calls = 1
    /\ session[request.user].listening_task # None
    /\ session[request.user].listening_task[1].level = "B1"


\* C22 (SpecSession): a GET of the listening view without new=1, for the
\* level of the task pending in the user's session, returns that task: the
\* session keeps it (same task_id, same instance) and the generator is not
\* called.  A pending task is replaced by another instance only by a GET of
\* its user with new=1 or for another level.
C22_PendingTaskReused ==
    [][\A u \in Users :
          session[u].listening_task # None =>
              /\ (/\ request'.user = u
                  /\ request'.route = "listening"
                  /\ request'.method = "GET"
                  /\ ~request'.new
                  /\ GetLevel(request'.level_arg) = session[u].listening_task[1].level) =>
                    /\ session'[u].listening_task = session[u].listening_task
                    /\ pending_ids'[u].listening_task = pending_ids[u].listening_task
                    /\ request'.generator_calls = 0
                    /\ issued' = issued
              /\ (/\ session'[u].listening_task # None
                  /\ pending_ids'[u].listening_task # pending_ids[u].listening_task) =>
                    /\ request'.user = u
                    /\ request'.route = "listening"
                    /\ request'.method = "GET"
                    /\ request'.generator_calls = 1
                    /\ \/ request'.new
                       \/ GetLevel(request'.level_arg) # session[u].listening_task[1].level]_vars

\* C22 witness: a GET without new=1 was answered with the pending task, no
\* generator call made.
C22_Witness ==
    /\ ListeningShown
    /\ ~request.new
    /\ request.generator_calls = 0
    /\ session[request.user].listening_task # None
    /\ pending_ids[request.user].listening_task # 0

\* C22 witness of the other case: a GET for another level replaced the
\* pending task of the user.
C22_Replaced ==
    /\ ListeningShown
    /\ ~request.new
    /\ request.generator_calls = 1
    /\ pending_ids[request.user].listening_task = 2
    /\ issued = 2
    /\ session[3 - request.user].listening_task = None
    /\ recorded = <<>>

----------------------------------------------------------------------------
(* The streak before and after one more submission.  today is fixed; the   *)
(* history is any sequence of up to MaxMono submissions of the two users,  *)
(* each dated on a day from today - MonoBack to today + 1 (created_at is   *)
(* the UTC clock and today the local date, so that a row can be dated on   *)
(* the day after today).                                                   *)

\* practiced_days of user u over the rows s
DaysIn(s, u) == {s[i].created_at : i \in {j \in DOMAIN s : s[j].user_id = u}}

\* the while loop of dashboard(): the number of days counted from day down
RECURSIVE Walk(_, _)
Walk(days, day) == IF day \in days THEN 1 + Walk(days, day - 1) ELSE 0

\* the streak dashboard() renders for practiced_days = days and today = t
StreakOf(days, t) == Walk(days, Anchor(days, t))

MonoDays == (0 - MonoBack) .. 1

\* a submit whose row is dated on day
MonoInsert ==
    \E u \in Users, day \in MonoDays :
        /\ DashIdle
        /\ Len(subs) < MaxMono
        /\ subs' = Append(subs, [Submission(u, "WRITING", Some(55)) EXCEPT
                                     !.created_at = day])
        /\ UNCHANGED <<today, NotDash>>
        /\ DashReset

MonoInit ==
    /\ subs = <<>>
    /\ today = 0
    /\ DashInit
    /\ GenIdle
    /\ EvalIdle
    /\ JudgeIdle
    /\ AppIdle

MonoNext ==
    \/ MonoInsert
    \/ \E u \in Users : DashboardQuery(u)
    \/ DashboardWalk
    \/ DashboardRender

SpecMono == MonoInit /\ [][MonoNext]_vars

\* C23 (SpecMono): with today fixed, one more submission never decreases a
\* user's streak, whatever its day and its user; when it is the user's own
\* and dated today the streak is at least 1 afterwards.  The streak compared
\* is the one the dashboard renders.
C23_StreakMonotone ==
    [][/\ pc' = "done" => streak' = StreakOf(DaysIn(subs', user'[1]), today')
       /\ (Len(subs') = Len(subs) + 1 /\ today' = today) =>
             \A u \in Users :
                /\ StreakOf(DaysIn(subs', u), today)
                      >= StreakOf(DaysIn(subs, u), today)
                /\ (/\ subs'[Len(subs')].user_id = u
                    /\ subs'[Len(subs')].created_at = today) =>
                      StreakOf(DaysIn(subs', u), today) >= 1]_vars

\* C23 witness: the third submission of user 1, dated today, followed two on
\* the two days before, and the dashboard shows a streak of 3.
C23_Witness ==
    /\ Rendered
    /\ UserId = 1
    /\ Len(subs) = 3
    /\ \A i \in 1 .. 3 : subs[i].user_id = 1
    /\ subs[3].created_at = today
    /\ DaysIn(subs, 1) = {today, today - 1, today - 2}
    /\ streak = 3

----------------------------------------------------------------------------
(* The outcomes of the evaluation calls in the history the dashboard reads. *)
(* User 1 submits up to MaxOutcomes essays and recordings on one day.       *)

QuotaFailure ==
    [kind |-> "raise", type |-> "RateLimitError",
     repr |-> <<"RateLimitError", "(", "Error code: 429 - ",
                "insufficient_quota", ")">>]

\* the evaluation call of an essay: the quota error, a response that reads
OutcomeWritingAI == {QuotaFailure, GoodAssessment}

\* the evaluation call of a transcript: a response json.loads rejects, the
\* quota error
OutcomeSpeakingAI == {[kind |-> "malformed"], QuotaFailure}

\* the transcription: no credentials, a failing call, a text
OutcomeSTTs == STTs

\* POST /writing with an essay, credentials configured
OutcomeWritingPost(u) ==
    \E ai \in OutcomeWritingAI :
        LET essay == Strip(<<" ", "w", " ">>)
            res   == generate_ai_feedback_writing(essay, ai)
        IN  /\ DashIdle
            /\ Len(subs) < MaxOutcomes
            /\ subs' = AddCommit(subs,
                   SubmissionRow(u, "WRITING", Flat(essay), res.score,
                                 Join(res.feedback, "\n")))
            /\ judge' = [fn |-> "generate_ai_feedback_writing",
                         text |-> essay, ai |-> ai]
            /\ evaluation' = res
            /\ request' = [Req("writing", "POST", u) EXCEPT
                   !.evaluator_calls = 1,
                   !.inserted = TRUE,
                   !.status = "redirect stats"]
            /\ DashReset
            /\ UNCHANGED <<today, session, issued, pending_ids, recorded,
                           genVars, evalVars>>

\* POST /speaking with a recording; the topic is the one of the session or
\* the first of the fallback list
OutcomeSpeakingPost(u) ==
    \E stt \in OutcomeSTTs :
        \E ai \in IF stt.kind = "text" THEN OutcomeSpeakingAI ELSE {NoClient} :
            LET step       == SpeakingTopicStep(u, FALSE, NoClient, 1)
                filename   == "speaking_" \o IntStr(u) \o "_" \o UtcNowStamp
                                  \o "_" \o "a.webm"
                transcript == transcribe_audio_file(stt)
                res        == SpeakingAssess(transcript, ai)
                payload    == [topic |-> step.topic,
                               audio_path |-> "uploads/" \o filename,
                               audio_url |-> "/uploads/" \o filename,
                               audio_mimetype |-> "audio/webm",
                               notes |-> "",
                               transcript |-> transcript]
            IN  /\ DashIdle
                /\ Len(subs) < MaxOutcomes
                /\ subs' = AddCommit(subs,
                       SubmissionRow(u, "SPEAKING", [json |-> payload],
                                     res.ai_score, res.ai_feedback))
                /\ session' = SessionPop(step.sess, u, "speaking_topic")
                /\ judge' = IF res.evaluator_calls = 1
                                THEN [fn |-> "generate_ai_feedback_speaking",
                                      transcript |-> transcript[1], ai |-> ai]
                                ELSE None
                /\ evaluation' = IF res.evaluator_calls = 1
                                     THEN generate_ai_feedback_speaking(transcript[1], ai)
                                     ELSE None
                /\ request' = [Req("speaking", "POST", u) EXCEPT
                       !.audio = Some("a.webm"),
                       !.generator_calls = IF step.generated THEN 1 ELSE 0,
                       !.stt = Some(stt.kind),
                       !.transcript = transcript,
                       !.transcribe_calls = 1,
                       !.evaluator_calls = res.evaluator_calls,
                       !.graded = Some(step.topic),
                       !.inserted = TRUE,
                       !.status = "redirect stats"]
                /\ DashReset
                /\ UNCHANGED <<today, issued, pending_ids, recorded,
                               genVars, evalVars>>

OutcomeInit ==
    /\ subs = <<>>
    /\ today = 0
    /\ DashInit
    /\ GenIdle
    /\ EvalIdle
    /\ JudgeIdle
    /\ AppIdle

OutcomeNext ==
    \/ OutcomeWritingPost(1)
    \/ OutcomeSpeakingPost(1)
    \/ DashboardQuery(1)
    \/ DashboardWalk
    \/ DashboardRender

SpecOutcome == OutcomeInit /\ [][OutcomeNext]_vars

\* the evaluation call of the last submit failed
LastCallFailed ==
    IF request.evaluator_calls = 1 THEN JudgeCallFailed(judge.ai) ELSE FALSE

\* the last submit ended in one of the zero-score outcomes: no transcript
\* (no credentials, or the transcription call failed), or the quota error of
\* the speaking evaluation
LastZeroOutcome ==
    IF request.evaluator_calls = 0 THEN TRUE
    ELSE /\ judge.fn = "generate_ai_feedback_speaking"
         /\ IsQuotaError(judge.ai)

\* C24 (SpecOutcome): the row of a submit whose AI evaluation call failed
\* carries the score 55 (a failed speaking call recognised as quota
\* exhaustion excepted), and 55 enters the list of scores the dashboard
\* averages, before those of the older rows of the window, as the score of
\* a call that succeeded does, so that the overall score and the level are
\* defined; the row of a zero-score outcome (transcription unavailable with
\* or without credentials, speaking quota exhaustion) carries 0 and adds
\* nothing to that list.  The dashboard shows the rounded average of that
\* list and its level.
C24_DegradedCounts ==
    /\ Rendered =>
          /\ overall_score = OverallScore(UserId)
          /\ level = LevelOf(overall_score)
    /\ Submitted =>
          /\ Head(RecentQuery(request.user)) = LastRow
          /\ (LastCallFailed /\ ~LastZeroOutcome) =>
                /\ LastRow.ai_score = Some(55)
                /\ PositiveScores(RecentQuery(request.user))
                      = <<55>> \o PositiveScores(Tail(RecentQuery(request.user)))
                /\ OverallScore(request.user) # None
                /\ LevelOf(OverallScore(request.user)) \in CEFR
          /\ (request.evaluator_calls = 1 /\ ~LastCallFailed) =>
                /\ LastRow.ai_score = Some(72)
                /\ PositiveScores(RecentQuery(request.user))
                      = <<72>> \o PositiveScores(Tail(RecentQuery(request.user)))
          /\ LastZeroOutcome =>
                /\ LastRow.ai_score = Some(0)
                /\ PositiveScores(RecentQuery(request.user))
                      = PositiveScores(Tail(RecentQuery(request.user)))

\* C24 witness: a recording without credentials, a recording whose
\* evaluation met the quota error, an essay evaluated with 72, and then an
\* essay whose evaluation call failed: the dashboard shows round(127 / 2)
\* = 64, level B1.
C24_Witness ==
    /\ Rendered
    /\ Len(subs) = 4
    /\ request.route = "writing"
    /\ LastCallFailed
    /\ subs[1].type = "SPEAKING"
    /\ subs[1].content.json.transcript = None
    /\ subs[2].ai_feedback = Join(QuotaResult.feedback, "\n")
    /\ subs[1].ai_score = Some(0)
    /\ subs[2].ai_score = Some(0)
    /\ subs[3].ai_score = Some(72)
    /\ subs[4].ai_score = Some(55)
    /\ overall_score = Some(64)
    /\ level = "B1"

----------------------------------------------------------------------------
(* The speaking submit and the pending topic.                               *)

\* the request carries a recording: request.files.get("audio") with a name
CarriesAudio(r) == r.audio # None /\ r.audio # Some("")

\* the topics generate_speaking_topic returns without credentials
FallbackTopics == {fallback_speaking_topic(c) : c \in 1 .. Len(topics)}

\* C25 (SpecSession): a POST to /speaking that carries an audio file appends
\* exactly one SPEAKING row of the requesting user to the history, whether
\* or not a topic was pending.  With no topic pending the handler generates
\* one in the same request and the row records it; with a topic pending no
\* topic is generated and the row records the pending one.  A POST to
\* /listening with no task pending persists nothing.
C25_SpeakingSubmitPersists ==
    [][/\ (/\ request'.route = "speaking"
           /\ request'.method = "POST"
           /\ CarriesAudio(request')) =>
             /\ request'.inserted
             /\ Len(subs') = Len(subs) + 1
             /\ SubSeq(subs', 1, Len(subs)) = subs
             /\ subs'[Len(subs')].type = "SPEAKING"
             /\ subs'[Len(subs')].user_id = request'.user
             /\ IF session[request'.user].speaking_topic = None
                    THEN /\ request'.generator_calls = 1
                         /\ issued' = issued + 1
                         /\ subs'[Len(subs')].content.json.topic \in FallbackTopics
                    ELSE /\ request'.generator_calls = 0
                         /\ issued' = issued
                         /\ subs'[Len(subs')].content.json.topic
                                = session[request'.user].speaking_topic[1]
       /\ (/\ request'.route = "listening"
           /\ request'.method = "POST"
           /\ session[request'.user].listening_task = None) =>
             /\ ~request'.inserted
             /\ subs' = subs]_vars

\* C25 witness: a recording was posted with no topic pending; the topic
\* generated in the request is in the row.
C25_Witness ==
    /\ Submitted
    /\ request.route = "speaking"
    /\ CarriesAudio(request)
    /\ request.generator_calls = 1
    /\ LastRow.type = "SPEAKING"
    /\ LastRow.content.json.topic = fallback_speaking_topic(1)

\* C25 witness of the other case: the recording answered the pending topic.
C25_PendingTopicRecorded ==
    /\ Submitted
    /\ request.route = "speaking"
    /\ CarriesAudio(request)
    /\ request.generator_calls = 0
    /\ LastRow.content.json.topic = fallback_speaking_topic(1)

=============================================================================
